---- MODULE Spec2Model ----
(***************************************************************************)
(* Car dealership manager: the entity mutators (vehicle, vendor, expense   *)
(* and transaction handlers) over the relational store, and the            *)
(* profit/loss report derived from it.                                     *)
(*                                                                         *)
(* The store is four tables keyed by their serial id.  Money is kept the   *)
(* way the numeric(10,2) columns keep it: as a whole number of cents.  A   *)
(* handler's money input is a JavaScript number, modelled with three       *)
(* decimals (a whole number of mills), so that amount.toString() written   *)
(* to a numeric(10,2) column rounds.  Columns that no handler reads and no *)
(* report uses (year, color, mileage, notes, description, created_at,      *)
(* updated_at) are payload and are left out of the rows.                   *)
(***************************************************************************)
EXTENDS Integers, Sequences, FiniteSets, TLC

(***************************************************************************)
(* Bounds of the model: how many rows each serial sequence may hand out    *)
(* (ids are never reused), and how far the clock runs.  The handlers       *)
(* themselves are unbounded; the bounds guard the calls.                   *)
(***************************************************************************)
MaxVehicles == 2
MaxVendors == 1
MaxExpenses == 1
MaxTransactions == 1
MaxNow == 2
\* the sales ledger (vehicles and transactions only)
MaxSaleTransactions == 2
\* the report (vehicles, expenses and one sale)
MaxReportExpenses == 2
\* the expense breakdown
MaxFilterExpenses == 2
\* the dashboard
MaxDashboardExpenses == 2
MaxDashboardTransactions == 2
\* days in a calendar month of the model
MonthLength == 2
MaxCallers == 2
MaxRaceVehicles == 1

(***************************************************************************)
(* Optional and nullable values.  A nullable column or field is Null or    *)
(* Some(x); an input field that is left out is Undefined.                  *)
(***************************************************************************)
Null == <<>>
Undefined == <<"undefined", "undefined">>
Some(x) == <<x>>
Val(o) == o[1]

(***************************************************************************)
(* Enumerations of the schema.                                             *)
(***************************************************************************)
vehicleStatusEnum == {"acquired", "reconditioning", "listed", "sold", "archived"}
expenseTypeEnum ==
    {"acquisition", "reconditioning", "marketing", "transport", "storage",
     "inspection", "repairs", "detailing", "other"}
transactionTypeEnum == {"expense", "sale", "refund"}

(***************************************************************************)
(* Inputs the handlers are called with: small subsets of what the zod      *)
(* schemas accept.  Money inputs are in mills.  An id input of 0 names no  *)
(* row ever (serial ids start at 1); the other ids name a row, a row       *)
(* deleted since, or a row not yet inserted.                               *)
(***************************************************************************)
VinInputs == {"VIN1", "VIN2"}
MakeInputs == {"Toyota"}
ModelInputs == {"Camry"}
AcquisitionCostInputs == {15005}
StatusInputs == {Some("sold"), Some("archived")}
VendorNameInputs == {"Acme"}
VendorRenameInputs == {Undefined, Some("Bolt")}
VendorRefInputs == {Undefined, Some(0), Some(1)}
VendorRefUpdates == {Undefined, Null, Some(0), Some(1)}
ExpenseAmountInputs == {2504}
ExpenseAmountUpdates == {Undefined, Some(1000)}
ExpenseTypeInputs == {"repairs"}
ExpenseDateInputs == {Undefined}
TransactionTypeInputs == {"sale", "refund"}
TransactionAmountInputs == {28005}
TransactionDateInputs == {Undefined}
VehicleIdInputs == 0 .. MaxVehicles
VendorIdInputs == 0 .. MaxVendors
ExpenseIdInputs == 0 .. MaxExpenses
TransactionIdInputs == 0 .. MaxTransactions

VARIABLES
    vehicles,           \* vehiclesTable: id -> row
    vendors,            \* vendorsTable: id -> row
    expenses,           \* expensesTable: id -> row
    transactions,       \* transactionsTable: id -> row
    nextVehicleId,      \* the serial sequences of the four id columns
    nextVendorId,
    nextExpenseId,
    nextTransactionId,
    now,                \* the wall clock, new Date()
    result,             \* what the last call returned or threw
    calls               \* the calls in flight: caller -> position and locals

store == <<vehicles, vendors, expenses, transactions>>
sequences == <<nextVehicleId, nextVendorId, nextExpenseId, nextTransactionId>>
vars == <<vehicles, vendors, expenses, transactions, nextVehicleId, nextVendorId,
          nextExpenseId, nextTransactionId, now, result, calls>>

(***************************************************************************)
(* Conversions.                                                            *)
(***************************************************************************)
\* A JavaScript number (in mills) written as text to a numeric(10,2) column:
\* rounded to cents, half away from zero.
ToNumeric(mills) ==
    IF mills >= 0 THEN (mills + 5) \div 10 ELSE -((5 - mills) \div 10)

\* JavaScript truthiness of a number.
TruthyNumber(n) == n # 0

\* JavaScript truthiness of an optional, nullable number (an id, an amount).
Truthy(o) == o # Undefined /\ o # Null /\ TruthyNumber(Val(o))

(***************************************************************************)
(* Table operations.                                                       *)
(***************************************************************************)
EmptyTable == [k \in {} |-> Null]
InsertRow(table, id, row) ==
    [k \in DOMAIN table \cup {id} |-> IF k = id THEN row ELSE table[k]]
DeleteRows(table, ids) == [k \in DOMAIN table \ ids |-> table[k]]

(***************************************************************************)
(* Results of a call.                                                      *)
(***************************************************************************)
Returned(op, id, success) ==
    [op |-> op, ok |-> TRUE, error |-> "", id |-> id, success |-> success]
Thrown(op, error) ==
    [op |-> op, ok |-> FALSE, error |-> error, id |-> 0, success |-> FALSE]

\* The callers whose calls run statement by statement, and a caller with no
\* call in flight.
Callers == 1 .. MaxCallers
Idle == [op |-> "idle"]
OneCaller == CHOOSE c \in Callers : TRUE

Init ==
    /\ vehicles = EmptyTable
    /\ vendors = EmptyTable
    /\ expenses = EmptyTable
    /\ transactions = EmptyTable
    /\ nextVehicleId = 1
    /\ nextVendorId = 1
    /\ nextExpenseId = 1
    /\ nextTransactionId = 1
    /\ now = 1
    /\ result = Returned("init", 0, TRUE)
    /\ calls = [c \in Callers |-> Idle]

\* Time passes between calls.
Tick ==
    /\ now < MaxNow
    /\ now' = now + 1
    /\ UNCHANGED <<store, sequences, result, calls>>

(***************************************************************************)
(* Vehicle handlers.                                                       *)
(***************************************************************************)
\* The insert fails on the unique index of vin; the serial id it drew is
\* spent either way.
createVehicle(vin, make, model, acquisition_cost) ==
    /\ nextVehicleId' = nextVehicleId + 1
    /\ IF \E v \in DOMAIN vehicles : vehicles[v].vin = vin
       THEN /\ result' = Thrown("createVehicle", "StoreError")
            /\ UNCHANGED vehicles
       ELSE /\ vehicles' = InsertRow(vehicles, nextVehicleId,
                    [vin |-> vin, make |-> make, model |-> model,
                     status |-> "acquired",
                     acquisition_date |-> now,
                     acquisition_cost |-> ToNumeric(acquisition_cost),
                     listing_price |-> Null,
                     sale_price |-> Null,
                     sale_date |-> Null])
            /\ result' = Returned("createVehicle", nextVehicleId, TRUE)
    /\ UNCHANGED <<vendors, expenses, transactions, nextVendorId, nextExpenseId,
                   nextTransactionId, now, calls>>

\* (mutant: a price the input leaves out is written as null)
UpdatedVehicleClearingPrices(row, make, model, status, listing_price, sale_price, sale_date) ==
    [row EXCEPT
        !.make = IF make # Undefined THEN Val(make) ELSE @,
        !.model = IF model # Undefined THEN Val(model) ELSE @,
        !.status = IF status # Undefined THEN Val(status) ELSE @,
        !.listing_price =
            IF Truthy(listing_price) THEN Some(ToNumeric(Val(listing_price))) ELSE Null,
        !.sale_price =
            IF Truthy(sale_price) THEN Some(ToNumeric(Val(sale_price))) ELSE Null,
        !.sale_date = IF sale_date # Undefined THEN sale_date ELSE @]
\* The row updateVehicle writes: only the fields the input supplies.
UpdatedVehicle(row, make, model, status, listing_price, sale_price, sale_date) ==
    [row EXCEPT
        !.make = IF make # Undefined THEN Val(make) ELSE @,
        !.model = IF model # Undefined THEN Val(model) ELSE @,
        !.status = IF status # Undefined THEN Val(status) ELSE @,
        !.listing_price =
            IF listing_price # Undefined
            THEN (IF Truthy(listing_price) THEN Some(ToNumeric(Val(listing_price))) ELSE Null)
            ELSE @,
        !.sale_price =
            IF sale_price # Undefined
            THEN (IF Truthy(sale_price) THEN Some(ToNumeric(Val(sale_price))) ELSE Null)
            ELSE @,
        !.sale_date = IF sale_date # Undefined THEN sale_date ELSE @]

updateVehicle(id, make, model, status, listing_price, sale_price, sale_date) ==
    /\ IF id \notin DOMAIN vehicles
       THEN /\ result' = Thrown("updateVehicle", "NotFound")
            /\ UNCHANGED vehicles
       ELSE /\ vehicles' = [vehicles EXCEPT ![id] =
                    UpdatedVehicle(@, make, model, status, listing_price,
                                   sale_price, sale_date)]
            /\ result' = Returned("updateVehicle", id, TRUE)
    /\ UNCHANGED <<vendors, expenses, transactions, sequences, now, calls>>

\* The rows the cascade of deleteVehicle deletes.
ExpensesOfVehicle(id) == {e \in DOMAIN expenses : expenses[e].vehicle_id = id}
\* (mutant: the transactions are left behind)
TransactionsOfVehicleNone(id) == {}
TransactionsOfVehicle(id) ==
    {t \in DOMAIN transactions : transactions[t].vehicle_id = id}

deleteVehicle(id) ==
    /\ IF id \notin DOMAIN vehicles
       THEN /\ result' = Thrown("deleteVehicle", "NotFound")
            /\ UNCHANGED <<vehicles, expenses, transactions>>
       ELSE /\ expenses' = DeleteRows(expenses, ExpensesOfVehicle(id))
            /\ transactions' = DeleteRows(transactions, TransactionsOfVehicle(id))
            /\ vehicles' = DeleteRows(vehicles, {id})
            /\ result' = Returned("deleteVehicle", id, TRUE)
    /\ UNCHANGED <<vendors, sequences, now, calls>>

(***************************************************************************)
(* Vendor handlers.                                                        *)
(***************************************************************************)
createVendor(name) ==
    /\ nextVendorId' = nextVendorId + 1
    /\ vendors' = InsertRow(vendors, nextVendorId, [name |-> name])
    /\ result' = Returned("createVendor", nextVendorId, TRUE)
    /\ UNCHANGED <<vehicles, expenses, transactions, nextVehicleId, nextExpenseId,
                   nextTransactionId, now, calls>>

\* (mutant: no existence check; an update of no row returns normally)
updateVendorUnchecked(id, name) ==
    /\ IF id \notin DOMAIN vendors
       THEN /\ result' = Returned("updateVendor", id, TRUE)
            /\ UNCHANGED vendors
       ELSE /\ vendors' = [vendors EXCEPT ![id].name = Val(name)]
            /\ result' = Returned("updateVendor", id, TRUE)
    /\ UNCHANGED <<vehicles, expenses, transactions, sequences, now, calls>>
\* An update with no field to set is refused by the query builder.
updateVendor(id, name) ==
    /\ IF id \notin DOMAIN vendors
       THEN /\ result' = Thrown("updateVendor", "NotFound")
            /\ UNCHANGED vendors
       ELSE IF name = Undefined
       THEN /\ result' = Thrown("updateVendor", "StoreError")
            /\ UNCHANGED vendors
       ELSE /\ vendors' = [vendors EXCEPT ![id].name = Val(name)]
            /\ result' = Returned("updateVendor", id, TRUE)
    /\ UNCHANGED <<vehicles, expenses, transactions, sequences, now, calls>>

\* (mutant: the count is taken over every expense)
ExpenseCountOfAnyVendor(id) == Cardinality(DOMAIN expenses)
\* count(*) of the expenses that name the vendor.
ExpenseCountOfVendor(id) ==
    Cardinality({e \in DOMAIN expenses : expenses[e].vendor_id = Some(id)})

deleteVendor(id) ==
    /\ IF id \notin DOMAIN vendors
       THEN /\ result' = Thrown("deleteVendor", "NotFound")
            /\ UNCHANGED vendors
       ELSE IF ExpenseCountOfVendor(id) > 0
       THEN /\ result' = Thrown("deleteVendor", "Conflict")
            /\ UNCHANGED vendors
       ELSE /\ vendors' = DeleteRows(vendors, {id})
            /\ result' = Returned("deleteVendor", id, TRUE)
    /\ UNCHANGED <<vehicles, expenses, transactions, sequences, now, calls>>

(***************************************************************************)
(* Expense handlers.                                                       *)
(***************************************************************************)
\* (mutant: the store does not enforce the foreign key)
VendorForeignKeyOff(vendor_id) == TRUE
\* The foreign key of expenses.vendor_id: null, or the id of a vendor.
VendorForeignKeyHolds(vendor_id) ==
    vendor_id = Null \/ Val(vendor_id) \in DOMAIN vendors

createExpense(vehicle_id, vendor_id, amount, expense_type, expense_date) ==
    /\ IF vehicle_id \notin DOMAIN vehicles
       THEN /\ result' = Thrown("createExpense", "NotFound")
            /\ UNCHANGED <<expenses, nextExpenseId>>
       ELSE IF Truthy(vendor_id) /\ Val(vendor_id) \notin DOMAIN vendors
       THEN /\ result' = Thrown("createExpense", "NotFound")
            /\ UNCHANGED <<expenses, nextExpenseId>>
       ELSE /\ expenses' = InsertRow(expenses, nextExpenseId,
                    [vehicle_id |-> vehicle_id,
                     vendor_id |-> IF Truthy(vendor_id) THEN vendor_id ELSE Null,
                     amount |-> ToNumeric(amount),
                     expense_type |-> expense_type,
                     expense_date |->
                        IF expense_date # Undefined THEN Val(expense_date) ELSE now])
            /\ nextExpenseId' = nextExpenseId + 1
            /\ result' = Returned("createExpense", nextExpenseId, TRUE)
    /\ UNCHANGED <<vehicles, vendors, transactions, nextVehicleId, nextVendorId,
                   nextTransactionId, now, calls>>

\* The row updateExpense writes: only the fields the input supplies.
UpdatedExpense(row, vendor_id, amount, expense_type, expense_date) ==
    [row EXCEPT
        !.vendor_id = IF vendor_id # Undefined THEN vendor_id ELSE @,
        !.amount = IF amount # Undefined THEN ToNumeric(Val(amount)) ELSE @,
        !.expense_type = IF expense_type # Undefined THEN Val(expense_type) ELSE @,
        !.expense_date = IF expense_date # Undefined THEN Val(expense_date) ELSE @]

\* An update with no field to set is refused by the query builder, and one
\* that breaks the foreign key of vendor_id by the store.
updateExpense(id, vendor_id, amount, expense_type, expense_date) ==
    /\ IF id \notin DOMAIN expenses
       THEN /\ result' = Thrown("updateExpense", "NotFound")
            /\ UNCHANGED expenses
       ELSE IF Truthy(vendor_id) /\ Val(vendor_id) \notin DOMAIN vendors
       THEN /\ result' = Thrown("updateExpense", "NotFound")
            /\ UNCHANGED expenses
       ELSE IF \/ /\ vendor_id = Undefined /\ amount = Undefined
                  /\ expense_type = Undefined /\ expense_date = Undefined
               \/ /\ vendor_id # Undefined /\ ~VendorForeignKeyHolds(vendor_id)
       THEN /\ result' = Thrown("updateExpense", "StoreError")
            /\ UNCHANGED expenses
       ELSE /\ expenses' = [expenses EXCEPT ![id] =
                    UpdatedExpense(@, vendor_id, amount, expense_type, expense_date)]
            /\ result' = Returned("updateExpense", id, TRUE)
    /\ UNCHANGED <<vehicles, vendors, transactions, sequences, now, calls>>

\* deleteExpense returns {success: false} when no row was deleted.
deleteExpense(id) ==
    /\ expenses' = DeleteRows(expenses, {id})
    /\ result' = Returned("deleteExpense", id, id \in DOMAIN expenses)
    /\ UNCHANGED <<vehicles, vendors, transactions, sequences, now, calls>>

(***************************************************************************)
(* Transaction handlers.                                                   *)
(***************************************************************************)
\* Whether a transaction type triggers the vehicle update.
\* (mutant: a refund triggers it too)
IsSaleOrRefund(type) == type \in {"sale", "refund"}
\* (mutant: an expense transaction triggers it too)
IsSaleOrExpense(type) == type \in {"sale", "expense"}
IsSale(type) == type = "sale"

\* (mutant: the sale is stamped with the time of the call)
SoldVehicleStampedNow(row, amount, transaction_date) ==
    [row EXCEPT !.status = "sold",
                !.sale_price = Some(ToNumeric(amount)),
                !.sale_date = Some(now)]
\* (mutant: the sale leaves the sale date empty)
SoldVehicleWithoutDate(row, amount, transaction_date) ==
    [row EXCEPT !.status = "sold",
                !.sale_price = Some(ToNumeric(amount)),
                !.sale_date = Null]
\* The vehicle update a sale transaction triggers.
SoldVehicle(row, amount, transaction_date) ==
    [row EXCEPT !.status = "sold",
                !.sale_price = Some(ToNumeric(amount)),
                !.sale_date = Some(transaction_date)]

\* (mutants: the revert forgets a column)
RevertedVehicleKeepsPrice(row) ==
    [row EXCEPT !.status = "listed", !.sale_date = Null]
RevertedVehicleKeepsDate(row) ==
    [row EXCEPT !.status = "listed", !.sale_price = Null]
\* The vehicle update the deletion of a sale transaction triggers.
RevertedVehicle(row) ==
    [row EXCEPT !.status = "listed", !.sale_price = Null, !.sale_date = Null]

createTransaction(vehicle_id, type, amount, transaction_date) ==
    /\ IF vehicle_id \notin DOMAIN vehicles
       THEN /\ result' = Thrown("createTransaction", "NotFound")
            /\ UNCHANGED <<vehicles, transactions, nextTransactionId>>
       ELSE LET row == [vehicle_id |-> vehicle_id,
                        type |-> type,
                        amount |-> ToNumeric(amount),
                        transaction_date |->
                            IF transaction_date # Undefined
                            THEN Val(transaction_date) ELSE now]
            IN  /\ transactions' = InsertRow(transactions, nextTransactionId, row)
                /\ nextTransactionId' = nextTransactionId + 1
                /\ vehicles' =
                      IF IsSale(type)
                      THEN [vehicles EXCEPT ![vehicle_id] =
                                SoldVehicle(@, amount, row.transaction_date)]
                      ELSE vehicles
                /\ result' = Returned("createTransaction", nextTransactionId, TRUE)
    /\ UNCHANGED <<vendors, expenses, nextVehicleId, nextVendorId, nextExpenseId, now, calls>>

deleteTransaction(id) ==
    /\ IF id \notin DOMAIN transactions
       THEN /\ result' = Thrown("deleteTransaction", "NotFound")
            /\ UNCHANGED <<vehicles, transactions>>
       ELSE /\ vehicles' =
                  IF transactions[id].type = "sale"
                  THEN [vehicles EXCEPT ![transactions[id].vehicle_id] =
                            RevertedVehicle(@)]
                  ELSE vehicles
            /\ transactions' = DeleteRows(transactions, {id})
            /\ result' = Returned("deleteTransaction", id, TRUE)
    /\ UNCHANGED <<vendors, expenses, sequences, now, calls>>

(***************************************************************************)
(* The profit/loss report.                                                 *)
(***************************************************************************)
\* FinancialReportFilters: every field is optional.
NoFilters ==
    [start_date |-> Undefined, end_date |-> Undefined, status |-> Undefined,
     make |-> Undefined, model |-> Undefined]

\* JavaScript truthiness of an optional string.
TruthyString(o) == o # Undefined /\ Val(o) # ""

\* (mutant: a vehicle passes when it meets the make or the status filter)
MatchesMakeOrStatus(row, filters) ==
    /\ filters.start_date # Undefined => row.acquisition_date >= Val(filters.start_date)
    /\ filters.end_date # Undefined => row.acquisition_date <= Val(filters.end_date)
    /\ \/ ~TruthyString(filters.status) /\ ~TruthyString(filters.make)
       \/ TruthyString(filters.status) /\ row.status = Val(filters.status)
       \/ TruthyString(filters.make) /\ row.make = Val(filters.make)
    /\ TruthyString(filters.model) => row.model = Val(filters.model)
\* The WHERE clause getProfitLossReport builds: one condition per filter
\* that is supplied, joined by AND.
MatchesFilters(row, filters) ==
    /\ filters.start_date # Undefined => row.acquisition_date >= Val(filters.start_date)
    /\ filters.end_date # Undefined => row.acquisition_date <= Val(filters.end_date)
    /\ TruthyString(filters.status) => row.status = Val(filters.status)
    /\ TruthyString(filters.make) => row.make = Val(filters.make)
    /\ TruthyString(filters.model) => row.model = Val(filters.model)

\* (mutant: the join has no ON condition)
CrossJoinExpenses(vehicle_id) ==
    IF DOMAIN expenses = {}
    THEN {[vehicle_id |-> vehicle_id, expense_id |-> Null, amount |-> Null]}
    ELSE {[vehicle_id |-> vehicle_id, expense_id |-> Some(e),
           amount |-> Some(expenses[e].amount)] : e \in DOMAIN expenses}
\* vehicles LEFT JOIN expenses ON vehicles.id = expenses.vehicle_id: one
\* row per expense of the vehicle, or one row of nulls when it has none.
LeftJoinExpenses(vehicle_id) ==
    IF ExpensesOfVehicle(vehicle_id) = {}
    THEN {[vehicle_id |-> vehicle_id, expense_id |-> Null, amount |-> Null]}
    ELSE {[vehicle_id |-> vehicle_id, expense_id |-> Some(e),
           amount |-> Some(expenses[e].amount)] : e \in ExpensesOfVehicle(vehicle_id)}

\* SUM(amount) over the rows of a group: nulls are skipped, and the sum of
\* no value is null.
RECURSIVE SumAmounts(_)
SumAmounts(rows) ==
    IF rows = {} THEN 0
    ELSE LET r == CHOOSE x \in rows : TRUE
         IN  Val(r.amount) + SumAmounts(rows \ {r})
SqlSum(rows) ==
    LET valued == {r \in rows : r.amount # Null}
    IN  IF valued = {} THEN Null ELSE Some(SumAmounts(valued))
Coalesce(o, default) == IF o # Null THEN Val(o) ELSE default

\* One row of the grouped query: a vehicle with COALESCE(SUM(amount), 0).
ProfitLossQueryRow(vehicle_id) ==
    [vehicle_id |-> vehicle_id,
     acquisition_cost |-> vehicles[vehicle_id].acquisition_cost,
     sale_price |-> vehicles[vehicle_id].sale_price,
     total_expenses |-> Coalesce(SqlSum(LeftJoinExpenses(vehicle_id)), 0)]

\* (mutant: a missing sale price is read as 0)
ProfitLossRecordNullAsZero(row) ==
    LET totalCost == row.acquisition_cost + row.total_expenses
        salePrice == IF row.sale_price = Null THEN Some(0) ELSE row.sale_price
    IN  [vehicle_id |-> row.vehicle_id,
         acquisition_cost |-> row.acquisition_cost,
         total_expenses |-> row.total_expenses,
         total_cost |-> totalCost,
         sale_price |-> salePrice,
         profit_loss |-> Some(Val(salePrice) - totalCost),
         is_sold |-> TRUE]
\* The mapping of a query row to a ProfitLoss record.  A numeric column
\* arrives as text, and every text of a number is truthy; the parsed
\* number 0 is not.
ProfitLossRecord(row) ==
    LET totalCost == row.acquisition_cost + row.total_expenses
        salePrice == row.sale_price
        profitLoss == IF salePrice # Null /\ TruthyNumber(Val(salePrice))
                      THEN Some(Val(salePrice) - totalCost) ELSE Null
    IN  [vehicle_id |-> row.vehicle_id,
         acquisition_cost |-> row.acquisition_cost,
         total_expenses |-> row.total_expenses,
         total_cost |-> totalCost,
         sale_price |-> salePrice,
         profit_loss |-> profitLoss,
         is_sold |-> salePrice # Null]

ProfitLossReport(filters) ==
    {ProfitLossRecord(ProfitLossQueryRow(v)) :
        v \in {w \in DOMAIN vehicles : MatchesFilters(vehicles[w], filters)}}

VehicleProfitLoss(id) ==
    IF id \notin DOMAIN vehicles THEN Null
    ELSE Some(ProfitLossRecord(ProfitLossQueryRow(id)))

\* What a query returned.
Answered(op, id, value) ==
    [op |-> op, ok |-> TRUE, error |-> "", id |-> id, success |-> TRUE,
     value |-> value]

getProfitLossReport(filters) ==
    /\ result' = Answered("getProfitLossReport", 0, ProfitLossReport(filters))
    /\ UNCHANGED <<store, sequences, now, calls>>

getVehicleProfitLoss(id) ==
    /\ result' = Answered("getVehicleProfitLoss", id, VehicleProfitLoss(id))
    /\ UNCHANGED <<store, sequences, now, calls>>

(***************************************************************************)
(* Inventory aging and vehicle details.                                    *)
(***************************************************************************)
\* (mutant: every vehicle that is not sold is reported)
IsUnsold(row) == row.status # "sold"
\* The WHERE clause of getInventoryAging.
IsListed(row) == row.status = "listed"

\* One record of getInventoryAging; a tick of the clock stands for a day.
InventoryAgingRecord(vehicle_id) ==
    LET row == ProfitLossQueryRow(vehicle_id)
    IN  [vehicle_id |-> vehicle_id,
         vin |-> vehicles[vehicle_id].vin,
         make |-> vehicles[vehicle_id].make,
         model |-> vehicles[vehicle_id].model,
         status |-> vehicles[vehicle_id].status,
         acquisition_date |-> vehicles[vehicle_id].acquisition_date,
         days_in_inventory |-> now - vehicles[vehicle_id].acquisition_date,
         total_cost |-> row.acquisition_cost + row.total_expenses]

InventoryAging ==
    {InventoryAgingRecord(v) : v \in {w \in DOMAIN vehicles : IsListed(vehicles[w])}}

getInventoryAging ==
    /\ result' = Answered("getInventoryAging", 0, InventoryAging)
    /\ UNCHANGED <<store, sequences, now, calls>>

\* (mutant: the expenses are selected without the vehicle_id condition)
VehicleDetailsOfAllExpenses(id) ==
    IF id \notin DOMAIN vehicles THEN Null
    ELSE Some([vehicle |-> vehicles[id],
               expenses |-> expenses,
               transactions |->
                   [t \in TransactionsOfVehicle(id) |-> transactions[t]],
               profit_loss |-> Val(VehicleProfitLoss(id))])
\* The expenses and transactions getVehicleDetails selects, by id.
VehicleDetails(id) ==
    IF id \notin DOMAIN vehicles THEN Null
    ELSE LET profitLoss == VehicleProfitLoss(id)
         IN  IF profitLoss = Null THEN Null
             ELSE Some([vehicle |-> vehicles[id],
                        expenses |-> [e \in ExpensesOfVehicle(id) |-> expenses[e]],
                        transactions |->
                            [t \in TransactionsOfVehicle(id) |-> transactions[t]],
                        profit_loss |-> Val(profitLoss)])

getVehicleDetails(id) ==
    /\ result' = Answered("getVehicleDetails", id, VehicleDetails(id))
    /\ UNCHANGED <<store, sequences, now, calls>>

(***************************************************************************)
(* CSV export.  Money is held in cents; toFixed(2) writes it as text.      *)
(***************************************************************************)
\* Number.prototype.toFixed(2) of an amount in cents.
ToFixed(cents) ==
    LET magnitude == IF cents < 0 THEN -cents ELSE cents
        text == ToString(magnitude \div 100) \o "." \o
                ToString((magnitude % 100) \div 10) \o ToString(magnitude % 10)
    IN  IF cents < 0 THEN "-" \o text ELSE text

\* (mutant: a missing amount is written as 0.00)
OptionalToFixedOrZero(o) == IF o = Null THEN "0.00" ELSE ToFixed(Val(o))
\* value?.toFixed(2) || '': the text of no number is empty.
OptionalToFixed(o) == IF o = Null THEN "" ELSE ToFixed(Val(o))

\* `"${text}"`: the text between double quotes, with no escaping.
Quoted(text) == "\"" \o text \o "\""

\* Every order in which a query without ORDER BY may return its rows.
Orderings(rows) ==
    {order \in [1 .. Cardinality(rows) -> rows] :
        \A r \in rows : \E i \in DOMAIN order : order[i] = r}

ProfitLossCsvHeader ==
    "Vehicle ID,VIN,Make,Model,Acquisition Cost,Total Expenses,Sale Price,Profit/Loss\n"

\* [...].join(',') + '\n' for one record of the report.
ProfitLossCsvRow(pl) ==
    ToString(pl.vehicle_id) \o "," \o
    Quoted(vehicles[pl.vehicle_id].vin) \o "," \o
    Quoted(vehicles[pl.vehicle_id].make) \o "," \o
    Quoted(vehicles[pl.vehicle_id].model) \o "," \o
    ToFixed(pl.acquisition_cost) \o "," \o
    ToFixed(pl.total_expenses) \o "," \o
    OptionalToFixed(pl.sale_price) \o "," \o
    OptionalToFixed(pl.profit_loss) \o "\n"

RECURSIVE ProfitLossCsvRows(_)
ProfitLossCsvRows(profitLossData) ==
    IF profitLossData = <<>> THEN ""
    ELSE ProfitLossCsvRow(Head(profitLossData)) \o
         ProfitLossCsvRows(Tail(profitLossData))

\* The text exportProfitLossToCSV returns for the report in a given order.
ProfitLossCsv(profitLossData) ==
    IF Len(profitLossData) = 0 THEN ProfitLossCsvHeader
    ELSE ProfitLossCsvHeader \o ProfitLossCsvRows(profitLossData)

exportProfitLossToCSV(filters) ==
    /\ \E profitLossData \in Orderings(ProfitLossReport(filters)) :
          result' = Answered("exportProfitLossToCSV", 0,
                             ProfitLossCsv(profitLossData))
    /\ UNCHANGED <<store, sequences, now, calls>>

(***************************************************************************)
(* The expense breakdown and its CSV export.                               *)
(***************************************************************************)
\* needsJoin of getExpenseBreakdown.
NeedsJoin(filters) ==
    TruthyString(filters.status) \/ TruthyString(filters.make)
        \/ TruthyString(filters.model)

\* The inner join with vehicles and the conditions on the vehicle.
MatchesVehicleFilters(e, filters) ==
    /\ expenses[e].vehicle_id \in DOMAIN vehicles
    /\ LET row == vehicles[expenses[e].vehicle_id]
       IN  /\ TruthyString(filters.status) => row.status = Val(filters.status)
           /\ TruthyString(filters.make) => row.make = Val(filters.make)
           /\ TruthyString(filters.model) => row.model = Val(filters.model)

\* (mutant: the date bounds are ignored)
BreakdownMatchesAnyDate(e, filters) ==
    NeedsJoin(filters) => MatchesVehicleFilters(e, filters)
\* The rows getExpenseBreakdown aggregates: the date bounds apply to
\* expense_date.
BreakdownMatches(e, filters) ==
    /\ filters.start_date # Undefined =>
          expenses[e].expense_date >= Val(filters.start_date)
    /\ filters.end_date # Undefined =>
          expenses[e].expense_date <= Val(filters.end_date)
    /\ NeedsJoin(filters) => MatchesVehicleFilters(e, filters)

\* GROUP BY expense_type with SUM(amount) and COUNT(id) over a set of
\* expenses.
GroupByExpenseType(matching) ==
    {[expense_type |-> type,
      total_amount |->
          Coalesce(SqlSum({[expense_id |-> e, amount |-> Some(expenses[e].amount)] :
                              e \in {x \in matching : expenses[x].expense_type = type}}),
                   0),
      count |-> Cardinality({x \in matching : expenses[x].expense_type = type})] :
        type \in {expenses[e].expense_type : e \in matching}}

ExpenseBreakdown(filters) ==
    GroupByExpenseType({e \in DOMAIN expenses : BreakdownMatches(e, filters)})

getExpenseBreakdown(filters) ==
    /\ result' = Answered("getExpenseBreakdown", 0, ExpenseBreakdown(filters))
    /\ UNCHANGED <<store, sequences, now, calls>>

\* The rows exportExpenseBreakdownToCSV aggregates: with any filter it joins
\* vehicles, and the date bounds apply to the vehicle's acquisition_date.
CsvBreakdownMatches(e, filters) ==
    (\/ filters.start_date # Undefined \/ filters.end_date # Undefined
     \/ NeedsJoin(filters)) =>
        /\ expenses[e].vehicle_id \in DOMAIN vehicles
        /\ filters.start_date # Undefined =>
              vehicles[expenses[e].vehicle_id].acquisition_date
                  >= Val(filters.start_date)
        /\ filters.end_date # Undefined =>
              vehicles[expenses[e].vehicle_id].acquisition_date
                  <= Val(filters.end_date)
        /\ MatchesVehicleFilters(e, filters)

ExpenseBreakdownCsvHeader == "Expense Type,Total Amount,Count\n"

ExpenseBreakdownCsvRow(item) ==
    Quoted(item.expense_type) \o "," \o ToFixed(item.total_amount) \o "," \o
    ToString(item.count) \o "\n"

RECURSIVE ExpenseBreakdownCsvRows(_)
ExpenseBreakdownCsvRows(results) ==
    IF results = <<>> THEN ""
    ELSE ExpenseBreakdownCsvRow(Head(results)) \o
         ExpenseBreakdownCsvRows(Tail(results))

exportExpenseBreakdownToCSV(filters) ==
    /\ \E results \in Orderings(GroupByExpenseType(
                         {e \in DOMAIN expenses : CsvBreakdownMatches(e, filters)})) :
          result' = Answered("exportExpenseBreakdownToCSV", 0,
                             ExpenseBreakdownCsvHeader
                                 \o ExpenseBreakdownCsvRows(results))
    /\ UNCHANGED <<store, sequences, now, calls>>

(***************************************************************************)
(* The dashboard.  A tick of the clock is a day and a calendar month of    *)
(* the model has MonthLength days, the first month starting on day 0.      *)
(***************************************************************************)
\* new Date(now.getFullYear(), now.getMonth(), 1)
StartOfMonth(date) == date - (date % MonthLength)

\* (mutant: only sold vehicles are left out)
IsNotSold(row) == row.status # "sold"
\* (mutant: only the vehicles just acquired are counted)
IsAcquired(row) == row.status = "acquired"
\* ne(status, 'sold') AND ne(status, 'archived')
InInventory(row) == row.status # "sold" /\ row.status # "archived"

\* (mutant: the sale must also lie in the past)
SoldBetween(row, startOfMonth) ==
    /\ row.status = "sold"
    /\ row.sale_date # Null
    /\ Val(row.sale_date) >= startOfMonth
    /\ Val(row.sale_date) <= now
\* eq(status, 'sold') AND gte(sale_date, startOfMonth); a null sale_date
\* passes no comparison.
SoldSince(row, startOfMonth) ==
    /\ row.status = "sold"
    /\ row.sale_date # Null
    /\ Val(row.sale_date) >= startOfMonth

\* SUM over a set of rows, each an id with an amount; '0' when it is null.
SumOrZero(rows) == Coalesce(SqlSum(rows), 0)
AcquisitionCosts(ids) ==
    {[vehicle_id |-> v, amount |-> Some(vehicles[v].acquisition_cost)] : v \in ids}
ExpenseAmounts(ids) ==
    {[expense_id |-> e, amount |-> Some(expenses[e].amount)] : e \in ids}

\* (mutant: the expenses are not subtracted)
ProfitBeforeExpenses(v) ==
    Val(vehicles[v].sale_price) - vehicles[v].acquisition_cost
\* The profit the loop adds for one sold vehicle.
ProfitOfVehicle(v) ==
    Val(vehicles[v].sale_price) - vehicles[v].acquisition_cost
        - SumOrZero(ExpenseAmounts(ExpensesOfVehicle(v)))

RECURSIVE TotalProfit(_)
TotalProfit(ids) ==
    IF ids = {} THEN 0
    ELSE LET v == CHOOSE x \in ids : TRUE
         IN  ProfitOfVehicle(v) + TotalProfit(ids \ {v})

\* (mutant: the average is taken over the vehicles sold this month)
AvgDaysToSaleThisMonth ==
    LET dated == {v \in DOMAIN vehicles :
                     SoldSince(vehicles[v], StartOfMonth(now))}
    IN  IF dated = {} THEN Null
        ELSE Some([days |->
                       SumOrZero({[vehicle_id |-> v,
                                   amount |-> Some(Val(vehicles[v].sale_date)
                                                   - vehicles[v].acquisition_date)] :
                                     v \in dated}),
                   vehicles |-> Cardinality(dated)])
\* AVG(EXTRACT(DAY FROM sale_date - acquisition_date)) over the sold
\* vehicles, as the sum of the days and the number of vehicles averaged;
\* null when no row has a sale_date.
AvgDaysToSale ==
    LET dated == {v \in DOMAIN vehicles :
                     vehicles[v].status = "sold" /\ vehicles[v].sale_date # Null}
    IN  IF dated = {} THEN Null
        ELSE Some([days |->
                       SumOrZero({[vehicle_id |-> v,
                                   amount |-> Some(Val(vehicles[v].sale_date)
                                                   - vehicles[v].acquisition_date)] :
                                     v \in dated}),
                   vehicles |-> Cardinality(dated)])

\* The record getDashboardKpis returns when no write runs between its
\* queries.
DashboardKpis ==
    LET startOfMonth == StartOfMonth(now)
        inventory == {v \in DOMAIN vehicles : InInventory(vehicles[v])}
        soldThisMonth == {v \in DOMAIN vehicles : SoldSince(vehicles[v], startOfMonth)}
    IN  [total_inventory |-> Cardinality(inventory),
         total_inventory_value |->
             SumOrZero(AcquisitionCosts(inventory))
             + SumOrZero(ExpenseAmounts({e \in DOMAIN expenses :
                                            expenses[e].vehicle_id \in inventory})),
         vehicles_in_reconditioning |->
             Cardinality({v \in DOMAIN vehicles :
                             vehicles[v].status = "reconditioning"}),
         vehicles_listed |->
             Cardinality({v \in DOMAIN vehicles : vehicles[v].status = "listed"}),
         vehicles_sold_this_month |-> Cardinality(soldThisMonth),
         total_profit_this_month |->
             TotalProfit({v \in soldThisMonth : vehicles[v].sale_price # Null}),
         avg_days_to_sale |-> AvgDaysToSale]

getDashboardKpis ==
    /\ result' = Answered("getDashboardKpis", 0, DashboardKpis)
    /\ UNCHANGED <<store, sequences, now, calls>>

(***************************************************************************)
(* The handlers statement by statement.  Each awaited query is one step;   *)
(* between two steps of a call the steps of other callers may run.  A call *)
(* in flight is a record of its handler (op), the statement it is about to *)
(* issue (pc), its input and its local variables.                          *)
(***************************************************************************)
Proceed(c, call) == calls' = [calls EXCEPT ![c] = call]
Finish(c, outcome) ==
    /\ result' = outcome
    /\ calls' = [calls EXCEPT ![c] = Idle]
At(c, op, pc) == calls[c].op = op /\ calls[c].pc = pc

\* createTransaction: the select of the vehicle.
createTransactionSelect(c, vehicle_id, type, amount, transaction_date) ==
    /\ calls[c] = Idle
    /\ IF vehicle_id \notin DOMAIN vehicles
       THEN Finish(c, Thrown("createTransaction", "NotFound"))
       ELSE /\ Proceed(c, [op |-> "createTransaction", pc |-> "insert",
                           input |-> [vehicle_id |-> vehicle_id, type |-> type,
                                      amount |-> amount,
                                      transaction_date |-> transaction_date],
                           local |-> [vehicle |-> vehicles[vehicle_id],
                                      transaction |-> Null]])
            /\ UNCHANGED result
    /\ UNCHANGED <<store, sequences, now>>

\* createTransaction: the insert; the store refuses a vehicle_id of no
\* vehicle, and the sequence value is used up either way.
createTransactionInsert(c) ==
    /\ At(c, "createTransaction", "insert")
    /\ LET input == calls[c].input
           row == [vehicle_id |-> input.vehicle_id,
                   type |-> input.type,
                   amount |-> ToNumeric(input.amount),
                   transaction_date |->
                       IF input.transaction_date # Undefined
                       THEN Val(input.transaction_date) ELSE now]
       IN  /\ nextTransactionId' = nextTransactionId + 1
           /\ IF input.vehicle_id \notin DOMAIN vehicles
              THEN /\ Finish(c, Thrown("createTransaction", "StoreError"))
                   /\ UNCHANGED transactions
              ELSE /\ transactions' =
                         InsertRow(transactions, nextTransactionId, row)
                   /\ IF IsSale(input.type)
                      THEN /\ Proceed(c, [calls[c] EXCEPT
                                  !.pc = "update",
                                  !.local.transaction =
                                      Some([id |-> nextTransactionId,
                                            transaction_date |->
                                                row.transaction_date])])
                           /\ UNCHANGED result
                      ELSE Finish(c, Returned("createTransaction",
                                              nextTransactionId, TRUE))
    /\ UNCHANGED <<vehicles, vendors, expenses, nextVehicleId, nextVendorId,
                   nextExpenseId, now>>

\* The update of the vehicles a sale marks: no row when the vehicle is gone.
MarkedSold(vehicle_id, amount, transaction_date) ==
    IF vehicle_id \in DOMAIN vehicles
    THEN [vehicles EXCEPT ![vehicle_id] =
              SoldVehicle(@, amount, transaction_date)]
    ELSE vehicles

\* (mutant: the update waits until no other call is in flight)
createTransactionUpdateLocked(c) ==
    /\ At(c, "createTransaction", "update")
    /\ \A d \in Callers \ {c} : calls[d] = Idle
    /\ vehicles' = MarkedSold(calls[c].input.vehicle_id, calls[c].input.amount,
                              Val(calls[c].local.transaction).transaction_date)
    /\ Finish(c, Returned("createTransaction", Val(calls[c].local.transaction).id,
                         TRUE))
    /\ UNCHANGED <<vendors, expenses, transactions, sequences, now>>
\* createTransaction: the update of the vehicle after the insert of a sale.
createTransactionUpdate(c) ==
    /\ At(c, "createTransaction", "update")
    /\ vehicles' = MarkedSold(calls[c].input.vehicle_id, calls[c].input.amount,
                              Val(calls[c].local.transaction).transaction_date)
    /\ Finish(c, Returned("createTransaction", Val(calls[c].local.transaction).id,
                         TRUE))
    /\ UNCHANGED <<vendors, expenses, transactions, sequences, now>>

\* (mutant: the failed call takes its transaction back)
createTransactionUpdateFailsRolledBack(c) ==
    /\ At(c, "createTransaction", "update")
    /\ transactions' =
          DeleteRows(transactions, {Val(calls[c].local.transaction).id})
    /\ Finish(c, Thrown("createTransaction", "StoreError"))
    /\ UNCHANGED <<vehicles, vendors, expenses, sequences, now>>
\* createTransaction: the update of the vehicle fails in the store; the
\* catch block logs and rethrows.
createTransactionUpdateFails(c) ==
    /\ At(c, "createTransaction", "update")
    /\ Finish(c, Thrown("createTransaction", "StoreError"))
    /\ UNCHANGED <<store, sequences, now>>

\* deleteTransaction: the select of the transaction.
deleteTransactionSelect(c, id) ==
    /\ calls[c] = Idle
    /\ IF id \notin DOMAIN transactions
       THEN Finish(c, Thrown("deleteTransaction", "NotFound"))
       ELSE /\ Proceed(c, [op |-> "deleteTransaction",
                           pc |-> IF transactions[id].type = "sale"
                                  THEN "update" ELSE "delete",
                           input |-> [id |-> id],
                           local |-> Some(transactions[id])])
            /\ UNCHANGED result
    /\ UNCHANGED <<store, sequences, now>>

\* The update of the vehicles the deletion of a sale reverts.
MarkedListed(vehicle_id) ==
    IF vehicle_id \in DOMAIN vehicles
    THEN [vehicles EXCEPT ![vehicle_id] = RevertedVehicle(@)]
    ELSE vehicles

\* deleteTransaction: the update of the vehicle of a sale.
deleteTransactionUpdate(c) ==
    /\ At(c, "deleteTransaction", "update")
    /\ vehicles' = MarkedListed(Val(calls[c].local).vehicle_id)
    /\ Proceed(c, [calls[c] EXCEPT !.pc = "delete"])
    /\ UNCHANGED <<vendors, expenses, transactions, sequences, now, result>>

\* deleteTransaction: the delete, of a row or of none.
deleteTransactionDelete(c) ==
    /\ At(c, "deleteTransaction", "delete")
    /\ transactions' = DeleteRows(transactions, {calls[c].input.id})
    /\ Finish(c, Returned("deleteTransaction", calls[c].input.id, TRUE))
    /\ UNCHANGED <<vehicles, vendors, expenses, sequences, now>>

\* deleteTransaction: the delete fails in the store; the catch block logs
\* and rethrows.
deleteTransactionDeleteFails(c) ==
    /\ At(c, "deleteTransaction", "delete")
    /\ Finish(c, Thrown("deleteTransaction", "StoreError"))
    /\ UNCHANGED <<store, sequences, now>>

\* deleteVehicle: the select of the vehicle.  The call also remembers, for
\* the properties, the expenses and transactions the vehicle had (had).
deleteVehicleSelect(c, id) ==
    /\ calls[c] = Idle
    /\ IF id \notin DOMAIN vehicles
       THEN Finish(c, Thrown("deleteVehicle", "NotFound"))
       ELSE /\ Proceed(c, [op |-> "deleteVehicle", pc |-> "expenses",
                           input |-> [id |-> id],
                           had |-> [expenses |-> ExpensesOfVehicle(id),
                                    transactions |-> TransactionsOfVehicle(id)]])
            /\ UNCHANGED result
    /\ UNCHANGED <<store, sequences, now>>

\* deleteVehicle: the delete of the expenses of the vehicle.
deleteVehicleExpenses(c) ==
    /\ At(c, "deleteVehicle", "expenses")
    /\ expenses' = DeleteRows(expenses, ExpensesOfVehicle(calls[c].input.id))
    /\ Proceed(c, [calls[c] EXCEPT !.pc = "transactions"])
    /\ UNCHANGED <<vehicles, vendors, transactions, sequences, now, result>>

\* deleteVehicle: the delete of the transactions of the vehicle.
deleteVehicleTransactions(c) ==
    /\ At(c, "deleteVehicle", "transactions")
    /\ transactions' =
          DeleteRows(transactions, TransactionsOfVehicle(calls[c].input.id))
    /\ Proceed(c, [calls[c] EXCEPT !.pc = "vehicle"])
    /\ UNCHANGED <<vehicles, vendors, expenses, sequences, now, result>>

\* deleteVehicle: the delete of the vehicle, which the store refuses while
\* an expense or a transaction names the vehicle.
deleteVehicleRow(c) ==
    /\ At(c, "deleteVehicle", "vehicle")
    /\ IF \/ ExpensesOfVehicle(calls[c].input.id) # {}
          \/ TransactionsOfVehicle(calls[c].input.id) # {}
       THEN /\ Finish(c, Thrown("deleteVehicle", "StoreError"))
            /\ UNCHANGED vehicles
       ELSE /\ vehicles' = DeleteRows(vehicles, {calls[c].input.id})
            /\ Finish(c, Returned("deleteVehicle", calls[c].input.id, TRUE))
    /\ UNCHANGED <<vendors, expenses, transactions, sequences, now>>

\* createExpense: the select of the vehicle.
createExpenseSelect(c, vehicle_id, vendor_id, amount, expense_type, expense_date) ==
    /\ calls[c] = Idle
    /\ IF vehicle_id \notin DOMAIN vehicles
       THEN Finish(c, Thrown("createExpense", "NotFound"))
       ELSE /\ Proceed(c, [op |-> "createExpense",
                           pc |-> IF Truthy(vendor_id) THEN "vendor"
                                  ELSE "insert",
                           input |-> [vehicle_id |-> vehicle_id,
                                      vendor_id |-> vendor_id,
                                      amount |-> amount,
                                      expense_type |-> expense_type,
                                      expense_date |-> expense_date]])
            /\ UNCHANGED result
    /\ UNCHANGED <<store, sequences, now>>

\* createExpense: the select of the vendor the input names.
createExpenseVendor(c) ==
    /\ At(c, "createExpense", "vendor")
    /\ IF Val(calls[c].input.vendor_id) \notin DOMAIN vendors
       THEN Finish(c, Thrown("createExpense", "NotFound"))
       ELSE /\ Proceed(c, [calls[c] EXCEPT !.pc = "insert"])
            /\ UNCHANGED result
    /\ UNCHANGED <<store, sequences, now>>

\* createExpense: the insert; the store refuses a vehicle_id of no vehicle
\* and a vendor_id of no vendor, and the sequence value is used up either
\* way.
createExpenseInsert(c) ==
    /\ At(c, "createExpense", "insert")
    /\ LET input == calls[c].input
           row == [vehicle_id |-> input.vehicle_id,
                   vendor_id |-> IF Truthy(input.vendor_id)
                                 THEN input.vendor_id ELSE Null,
                   amount |-> ToNumeric(input.amount),
                   expense_type |-> input.expense_type,
                   expense_date |->
                       IF input.expense_date # Undefined
                       THEN Val(input.expense_date) ELSE now]
       IN  /\ nextExpenseId' = nextExpenseId + 1
           /\ IF \/ input.vehicle_id \notin DOMAIN vehicles
                 \/ ~VendorForeignKeyHolds(row.vendor_id)
              THEN /\ Finish(c, Thrown("createExpense", "StoreError"))
                   /\ UNCHANGED expenses
              ELSE /\ expenses' = InsertRow(expenses, nextExpenseId, row)
                   /\ Finish(c, Returned("createExpense", nextExpenseId, TRUE))
    /\ UNCHANGED <<vehicles, vendors, transactions, nextVehicleId, nextVendorId,
                   nextTransactionId, now>>

\* getDashboardKpis statement by statement.  Besides its local variables the
\* call remembers, for the properties, the vehicles and expenses its first
\* query met (seen) and whether a later query met others (torn).
Inventory == {v \in DOMAIN vehicles : InInventory(vehicles[v])}
Torn(call) == call.torn \/ <<vehicles, expenses>> # call.seen
Query(c, pc, call) ==
    /\ At(c, "getDashboardKpis", pc)
    /\ Proceed(c, [call EXCEPT !.torn = Torn(calls[c])])
    /\ UNCHANGED <<store, sequences, now, result>>

\* startOfMonth and the count of the inventory.
getDashboardKpisInventory(c) ==
    /\ calls[c] = Idle
    /\ Proceed(c, [op |-> "getDashboardKpis", pc |-> "acquisition",
                   startOfMonth |-> StartOfMonth(now),
                   total_inventory |-> Cardinality(Inventory),
                   acquisitionValue |-> 0,
                   expensesValue |-> 0,
                   vehicles_in_reconditioning |-> 0,
                   vehicles_listed |-> 0,
                   vehicles_sold_this_month |-> 0,
                   soldVehiclesThisMonth |-> {},
                   total_profit_this_month |-> 0,
                   seen |-> <<vehicles, expenses>>,
                   torn |-> FALSE])
    /\ UNCHANGED <<store, sequences, now, result>>

\* The sum of the acquisition costs of the inventory.
getDashboardKpisAcquisition(c) ==
    Query(c, "acquisition",
          [calls[c] EXCEPT !.pc = "expenses",
                           !.acquisitionValue =
                               SumOrZero(AcquisitionCosts(Inventory))])

\* The sum of the expenses of the inventory.
getDashboardKpisExpenses(c) ==
    Query(c, "expenses",
          [calls[c] EXCEPT !.pc = "reconditioning",
                           !.expensesValue =
                               SumOrZero(ExpenseAmounts(
                                   {e \in DOMAIN expenses :
                                       expenses[e].vehicle_id \in Inventory}))])

\* The count of the vehicles in reconditioning.
getDashboardKpisReconditioning(c) ==
    Query(c, "reconditioning",
          [calls[c] EXCEPT !.pc = "listed",
                           !.vehicles_in_reconditioning =
                               Cardinality({v \in DOMAIN vehicles :
                                   vehicles[v].status = "reconditioning"})])

\* The count of the vehicles listed.
getDashboardKpisListed(c) ==
    Query(c, "listed",
          [calls[c] EXCEPT !.pc = "soldCount",
                           !.vehicles_listed =
                               Cardinality({v \in DOMAIN vehicles :
                                   vehicles[v].status = "listed"})])

\* The count of the vehicles sold this month.
getDashboardKpisSoldCount(c) ==
    Query(c, "soldCount",
          [calls[c] EXCEPT !.pc = "soldVehicles",
                           !.vehicles_sold_this_month =
                               Cardinality({v \in DOMAIN vehicles :
                                   SoldSince(vehicles[v],
                                             calls[c].startOfMonth)})])

\* The vehicles sold this month; the loop queries the expenses of those
\* with a sale_price.
getDashboardKpisSoldVehicles(c) ==
    LET rows == {[id |-> v,
                  acquisition_cost |-> vehicles[v].acquisition_cost,
                  sale_price |-> vehicles[v].sale_price] :
                    v \in {w \in DOMAIN vehicles :
                              /\ SoldSince(vehicles[w], calls[c].startOfMonth)
                              /\ vehicles[w].sale_price # Null}}
    IN  Query(c, "soldVehicles",
              [calls[c] EXCEPT !.pc = IF rows = {} THEN "avgDays"
                                      ELSE "vehicleExpenses",
                               !.soldVehiclesThisMonth = rows])

\* One turn of the loop: the sum of the expenses of a sold vehicle, and its
\* profit added to the total.
getDashboardKpisVehicleExpenses(c) ==
    /\ At(c, "getDashboardKpis", "vehicleExpenses")
    /\ \E vehicle \in calls[c].soldVehiclesThisMonth :
        LET rest == calls[c].soldVehiclesThisMonth \ {vehicle}
            profit == Val(vehicle.sale_price) - vehicle.acquisition_cost
                      - SumOrZero(ExpenseAmounts(ExpensesOfVehicle(vehicle.id)))
        IN  Query(c, "vehicleExpenses",
                  [calls[c] EXCEPT !.pc = IF rest = {} THEN "avgDays"
                                          ELSE "vehicleExpenses",
                                   !.soldVehiclesThisMonth = rest,
                                   !.total_profit_this_month = @ + profit])

\* The average of the days to sale, and the record returned.
getDashboardKpisAvgDays(c) ==
    /\ At(c, "getDashboardKpis", "avgDays")
    /\ Finish(c, Answered("getDashboardKpis", 0,
              [total_inventory |-> calls[c].total_inventory,
               total_inventory_value |->
                   calls[c].acquisitionValue + calls[c].expensesValue,
               vehicles_in_reconditioning |-> calls[c].vehicles_in_reconditioning,
               vehicles_listed |-> calls[c].vehicles_listed,
               vehicles_sold_this_month |-> calls[c].vehicles_sold_this_month,
               total_profit_this_month |-> calls[c].total_profit_this_month,
               avg_days_to_sale |-> AvgDaysToSale]))
    /\ UNCHANGED <<store, sequences, now>>

(***************************************************************************)
(* Every mutating call of the public interface, one call at a time.        *)
(***************************************************************************)
CallCreateVehicle ==
    /\ nextVehicleId <= MaxVehicles
    /\ \E vin \in VinInputs, make \in MakeInputs, model \in ModelInputs,
          cost \in AcquisitionCostInputs :
            createVehicle(vin, make, model, cost)
CallUpdateVehicle ==
    \E id \in VehicleIdInputs, status \in StatusInputs :
        updateVehicle(id, Undefined, Undefined, status, Undefined, Undefined,
                      Undefined)
CallDeleteVehicle == \E id \in VehicleIdInputs : deleteVehicle(id)
CallCreateVendor ==
    /\ nextVendorId <= MaxVendors
    /\ \E name \in VendorNameInputs : createVendor(name)
CallUpdateVendor ==
    \E id \in VendorIdInputs, name \in VendorRenameInputs : updateVendor(id, name)
CallDeleteVendor == \E id \in VendorIdInputs : deleteVendor(id)
CallCreateExpense ==
    /\ nextExpenseId <= MaxExpenses
    /\ \E vehicle_id \in VehicleIdInputs, vendor_id \in VendorRefInputs,
          amount \in ExpenseAmountInputs, expense_type \in ExpenseTypeInputs,
          expense_date \in ExpenseDateInputs :
            createExpense(vehicle_id, vendor_id, amount, expense_type, expense_date)
CallUpdateExpense ==
    \E id \in ExpenseIdInputs, vendor_id \in VendorRefUpdates,
       amount \in ExpenseAmountUpdates :
        updateExpense(id, vendor_id, amount, Undefined, Undefined)
CallDeleteExpense == \E id \in ExpenseIdInputs : deleteExpense(id)
CallCreateTransaction ==
    /\ nextTransactionId <= MaxTransactions
    /\ \E vehicle_id \in VehicleIdInputs, type \in TransactionTypeInputs,
          amount \in TransactionAmountInputs,
          transaction_date \in TransactionDateInputs :
            createTransaction(vehicle_id, type, amount, transaction_date)
CallDeleteTransaction == \E id \in TransactionIdInputs : deleteTransaction(id)

Next ==
    \/ CallCreateVehicle
    \/ CallUpdateVehicle
    \/ CallDeleteVehicle
    \/ CallCreateVendor
    \/ CallUpdateVendor
    \/ CallDeleteVendor
    \/ CallCreateExpense
    \/ CallUpdateExpense
    \/ CallDeleteExpense
    \/ CallCreateTransaction
    \/ CallDeleteTransaction

Spec == Init /\ [][Next]_vars

(***************************************************************************)
(* The sales ledger: vehicles and their transactions, with every amount,   *)
(* date and status the sale side effect can meet, while time passes.       *)
(***************************************************************************)
SaleStatusInputs == {Some("reconditioning"), Some("archived"), Some("sold")}
SaleTypeInputs == {"sale", "refund"}
SaleAmountInputs == {0, 28005}
SaleDateInputs == {Undefined, Some(0)}
SaleTransactionIdInputs == 0 .. MaxSaleTransactions

SalesCreateVehicle ==
    /\ nextVehicleId <= MaxVehicles
    /\ \E vin \in VinInputs, make \in MakeInputs, model \in ModelInputs,
          cost \in AcquisitionCostInputs :
            createVehicle(vin, make, model, cost)
SalesUpdateVehicle ==
    \E id \in VehicleIdInputs, status \in SaleStatusInputs :
        updateVehicle(id, Undefined, Undefined, status, Undefined, Undefined,
                      Undefined)
SalesCreateTransaction ==
    /\ nextTransactionId <= MaxSaleTransactions
    /\ \E vehicle_id \in VehicleIdInputs, type \in SaleTypeInputs,
          amount \in SaleAmountInputs, transaction_date \in SaleDateInputs :
            createTransaction(vehicle_id, type, amount, transaction_date)
SalesDeleteTransaction ==
    \E id \in SaleTransactionIdInputs : deleteTransaction(id)

NextSales ==
    \/ Tick
    \/ SalesCreateVehicle
    \/ SalesUpdateVehicle
    \/ SalesCreateTransaction
    \/ SalesDeleteTransaction

SpecSales == Init /\ [][NextSales]_vars

(***************************************************************************)
(* The transaction-driven path: no updateVehicle.                          *)
(***************************************************************************)
TxPathCreateExpense ==
    /\ nextExpenseId <= MaxExpenses
    /\ \E vehicle_id \in VehicleIdInputs, amount \in ExpenseAmountInputs,
          expense_type \in ExpenseTypeInputs :
            createExpense(vehicle_id, Undefined, amount, expense_type, Undefined)

NextTxPath ==
    \/ Tick
    \/ SalesCreateVehicle
    \/ TxPathCreateExpense
    \/ SalesCreateTransaction
    \/ SalesDeleteTransaction
    \/ CallDeleteVehicle

SpecTxPath == Init /\ [][NextTxPath]_vars

(***************************************************************************)
(* The report: vehicles with their expenses and a sale, and the two        *)
(* profit/loss queries.                                                    *)
(***************************************************************************)
ReportStatusInputs == {Some("sold"), Some("listed")}
ReportExpenseAmountInputs == {1000, 2504}
ReportTransactionTypeInputs == {"sale", "expense"}
ReportFilterInputs ==
    {NoFilters, [NoFilters EXCEPT !.status = Some("sold")]}
ReportExpenseIdInputs == 0 .. MaxReportExpenses

ReportUpdateVehicle ==
    \E id \in VehicleIdInputs, status \in ReportStatusInputs :
        updateVehicle(id, Undefined, Undefined, status, Undefined, Undefined,
                      Undefined)
ReportCreateExpense ==
    /\ nextExpenseId <= MaxReportExpenses
    /\ \E vehicle_id \in VehicleIdInputs, amount \in ReportExpenseAmountInputs,
          expense_type \in ExpenseTypeInputs :
            createExpense(vehicle_id, Undefined, amount, expense_type, Undefined)
ReportDeleteExpense == \E id \in ReportExpenseIdInputs : deleteExpense(id)
ReportCreateTransaction ==
    /\ nextTransactionId <= MaxTransactions
    /\ \E vehicle_id \in VehicleIdInputs, type \in ReportTransactionTypeInputs,
          amount \in SaleAmountInputs :
            createTransaction(vehicle_id, type, amount, Undefined)
ReportProfitLoss == \E filters \in ReportFilterInputs : getProfitLossReport(filters)
ReportVehicleProfitLoss == \E id \in VehicleIdInputs : getVehicleProfitLoss(id)
ReportVehicleDetails == \E id \in VehicleIdInputs : getVehicleDetails(id)
ReportInventoryAging == getInventoryAging
ReportDeleteTransaction == \E id \in TransactionIdInputs : deleteTransaction(id)

NextReport ==
    \/ SalesCreateVehicle
    \/ ReportUpdateVehicle
    \/ ReportCreateExpense
    \/ ReportDeleteExpense
    \/ ReportCreateTransaction
    \/ ReportDeleteTransaction
    \/ ReportProfitLoss
    \/ ReportVehicleProfitLoss
    \/ ReportVehicleDetails
    \/ ReportInventoryAging

SpecReport == Init /\ [][NextReport]_vars

(***************************************************************************)
(* The CSV export of the profit/loss report.                               *)
(***************************************************************************)
CsvCreateExpense ==
    /\ nextExpenseId <= MaxExpenses
    /\ \E vehicle_id \in VehicleIdInputs, amount \in ReportExpenseAmountInputs,
          expense_type \in ExpenseTypeInputs :
            createExpense(vehicle_id, Undefined, amount, expense_type, Undefined)
CsvExportProfitLoss ==
    \E filters \in ReportFilterInputs : exportProfitLossToCSV(filters)

NextCsv ==
    \/ SalesCreateVehicle
    \/ ReportUpdateVehicle
    \/ CsvCreateExpense
    \/ ReportCreateTransaction
    \/ CsvExportProfitLoss

SpecCsv == Init /\ [][NextCsv]_vars

(***************************************************************************)
(* Filtered reports: vehicles of two makes acquired on two days, expenses  *)
(* of two types, and every combination of the five filters.                *)
(***************************************************************************)
FilterMakeInputs == {"Toyota", "Honda"}
FilterExpenseTypeInputs == {"repairs", "detailing"}
FilterStatusInputs == {Some("listed")}
FilterInputs ==
    [start_date : {Undefined, Some(MaxNow)},
     end_date : {Undefined, Some(1)},
     status : {Undefined, Some("listed")},
     make : {Undefined, Some(""), Some("Toyota")},
     model : {Undefined, Some("Civic")}]

FilterCreateVehicle ==
    /\ nextVehicleId <= MaxVehicles
    /\ \E vin \in VinInputs, make \in FilterMakeInputs, model \in ModelInputs,
          cost \in AcquisitionCostInputs :
            createVehicle(vin, make, model, cost)
FilterUpdateVehicle ==
    \E id \in VehicleIdInputs, status \in FilterStatusInputs :
        updateVehicle(id, Undefined, Undefined, status, Undefined, Undefined,
                      Undefined)
FilterProfitLoss == \E filters \in FilterInputs : getProfitLossReport(filters)

NextFilter ==
    \/ Tick
    \/ FilterCreateVehicle
    \/ FilterUpdateVehicle
    \/ FilterProfitLoss

SpecFilter == Init /\ [][NextFilter]_vars

(***************************************************************************)
(* The expense breakdown and its export: the same vehicles with expenses   *)
(* of two types, and the filters one at a time and all together.           *)
(***************************************************************************)
BreakdownFilterInputs ==
    {NoFilters,
     [NoFilters EXCEPT !.start_date = Some(MaxNow)],
     [NoFilters EXCEPT !.end_date = Some(1)],
     [NoFilters EXCEPT !.status = Some("listed")],
     [NoFilters EXCEPT !.make = Some("Toyota")],
     [NoFilters EXCEPT !.make = Some("")],
     [NoFilters EXCEPT !.model = Some("Civic")],
     [NoFilters EXCEPT !.start_date = Some(1), !.end_date = Some(1),
                       !.status = Some("listed"), !.make = Some("Toyota"),
                       !.model = Some("Camry")]}

BreakdownCreateExpense ==
    /\ nextExpenseId <= MaxFilterExpenses
    /\ \E vehicle_id \in VehicleIdInputs, amount \in ExpenseAmountInputs,
          expense_type \in FilterExpenseTypeInputs :
            createExpense(vehicle_id, Undefined, amount, expense_type, Undefined)
BreakdownQuery ==
    \E filters \in BreakdownFilterInputs : getExpenseBreakdown(filters)
BreakdownExport ==
    \E filters \in BreakdownFilterInputs : exportExpenseBreakdownToCSV(filters)

NextBreakdown ==
    \/ Tick
    \/ FilterCreateVehicle
    \/ FilterUpdateVehicle
    \/ BreakdownCreateExpense
    \/ BreakdownQuery
    \/ BreakdownExport

SpecBreakdown == Init /\ [][NextBreakdown]_vars

(***************************************************************************)
(* The dashboard's inventory: vehicles in every status with expenses.      *)
(***************************************************************************)
DashboardStatusInputs ==
    {Some("reconditioning"), Some("listed"), Some("sold"), Some("archived")}

DashboardUpdateVehicle ==
    \E id \in VehicleIdInputs, status \in DashboardStatusInputs :
        updateVehicle(id, Undefined, Undefined, status, Undefined, Undefined,
                      Undefined)
DashboardCreateExpense ==
    /\ nextExpenseId <= MaxDashboardExpenses
    /\ \E vehicle_id \in VehicleIdInputs, amount \in ReportExpenseAmountInputs,
          expense_type \in ExpenseTypeInputs :
            createExpense(vehicle_id, Undefined, amount, expense_type, Undefined)

NextDashboard ==
    \/ SalesCreateVehicle
    \/ DashboardUpdateVehicle
    \/ DashboardCreateExpense
    \/ getDashboardKpis

SpecDashboard == Init /\ [][NextDashboard]_vars

(***************************************************************************)
(* The dashboard's month: sales dated before, within and after the         *)
(* current month, on vehicles with an expense.                             *)
(***************************************************************************)
MonthSaleDateInputs == {Undefined, Some(0), Some(MaxNow + 1)}

\* updateVehicle inputs: a status, with or without a sale_date.
MonthUpdateInputs ==
    {[status |-> Some("sold"), sale_date |-> Undefined],
     [status |-> Some("sold"), sale_date |-> Some(MaxNow)],
     [status |-> Some("listed"), sale_date |-> Undefined]}

MonthUpdateVehicle ==
    \E id \in VehicleIdInputs, input \in MonthUpdateInputs :
        updateVehicle(id, Undefined, Undefined, input.status, Undefined,
                      Undefined, input.sale_date)
MonthCreateExpense ==
    /\ nextExpenseId <= MaxExpenses
    /\ \E vehicle_id \in VehicleIdInputs, amount \in ExpenseAmountInputs,
          expense_type \in ExpenseTypeInputs :
            createExpense(vehicle_id, Undefined, amount, expense_type, Undefined)
MonthCreateTransaction ==
    /\ nextTransactionId <= MaxDashboardTransactions
    /\ \E vehicle_id \in VehicleIdInputs, amount \in SaleAmountInputs,
          transaction_date \in MonthSaleDateInputs :
            createTransaction(vehicle_id, "sale", amount, transaction_date)

NextMonth ==
    \/ Tick
    \/ SalesCreateVehicle
    \/ MonthUpdateVehicle
    \/ MonthCreateExpense
    \/ MonthCreateTransaction
    \/ getDashboardKpis

SpecMonth == Init /\ [][NextMonth]_vars

(***************************************************************************)
(* The ledger: transactions of every type on vehicles with expenses.       *)
(***************************************************************************)
LedgerTypeInputs == {"sale", "expense", "refund"}

LedgerCreateTransaction ==
    /\ nextTransactionId <= MaxSaleTransactions
    /\ \E vehicle_id \in VehicleIdInputs, type \in LedgerTypeInputs,
          amount \in TransactionAmountInputs,
          transaction_date \in TransactionDateInputs :
            createTransaction(vehicle_id, type, amount, transaction_date)

NextLedger ==
    \/ Tick
    \/ SalesCreateVehicle
    \/ TxPathCreateExpense
    \/ LedgerCreateTransaction
    \/ SalesDeleteTransaction

SpecLedger == Init /\ [][NextLedger]_vars

(***************************************************************************)
(* Vehicle updates: inputs that supply none, some or all of the fields, on *)
(* vehicles with an expense and a transaction.                             *)
(***************************************************************************)
NoUpdate ==
    [make |-> Undefined, model |-> Undefined, status |-> Undefined,
     listing_price |-> Undefined, sale_price |-> Undefined,
     sale_date |-> Undefined]

UpdateInputs ==
    {NoUpdate,
     [NoUpdate EXCEPT !.make = Some("Honda")],
     [NoUpdate EXCEPT !.model = Some("Civic"), !.status = Some("listed"),
                      !.listing_price = Some(19995)],
     [NoUpdate EXCEPT !.listing_price = Null],
     [NoUpdate EXCEPT !.status = Some("sold"), !.sale_price = Some(18000),
                      !.sale_date = Some(1)],
     [NoUpdate EXCEPT !.sale_price = Null, !.sale_date = Null]}

UpdateUpdateVehicle ==
    \E id \in VehicleIdInputs, input \in UpdateInputs :
        updateVehicle(id, input.make, input.model, input.status,
                      input.listing_price, input.sale_price, input.sale_date)

NextUpdate ==
    \/ SalesCreateVehicle
    \/ TxPathCreateExpense
    \/ CallCreateTransaction
    \/ UpdateUpdateVehicle

SpecUpdate == Init /\ [][NextUpdate]_vars

(***************************************************************************)
(* Two callers recording and deleting sales statement by statement.        *)
(***************************************************************************)
RaceCreateVehicle ==
    /\ nextVehicleId <= MaxRaceVehicles
    /\ \E vin \in VinInputs, make \in MakeInputs, model \in ModelInputs,
          cost \in AcquisitionCostInputs :
            createVehicle(vin, make, model, cost)
RaceCreateTransactionSelect ==
    /\ nextTransactionId <= MaxSaleTransactions
    /\ \E c \in Callers, vehicle_id \in VehicleIdInputs,
          amount \in SaleAmountInputs :
            createTransactionSelect(c, vehicle_id, "sale", amount, Undefined)
RaceDeleteTransactionSelect ==
    \E c \in Callers, id \in SaleTransactionIdInputs :
        deleteTransactionSelect(c, id)

NextRace ==
    \/ RaceCreateVehicle
    \/ RaceCreateTransactionSelect
    \/ \E c \in Callers : createTransactionInsert(c)
    \/ \E c \in Callers : createTransactionUpdate(c)
    \/ RaceDeleteTransactionSelect
    \/ \E c \in Callers : deleteTransactionUpdate(c)
    \/ \E c \in Callers : deleteTransactionDelete(c)

SpecRace == Init /\ [][NextRace]_vars

(***************************************************************************)
(* One caller whose second write may fail in the store.                    *)
(***************************************************************************)
FailureCreateTransactionSelect ==
    /\ nextTransactionId <= MaxSaleTransactions
    /\ \E vehicle_id \in VehicleIdInputs, type \in SaleTypeInputs,
          amount \in SaleAmountInputs, transaction_date \in SaleDateInputs :
            createTransactionSelect(OneCaller, vehicle_id, type, amount,
                                    transaction_date)
FailureDeleteTransactionSelect ==
    \E id \in SaleTransactionIdInputs : deleteTransactionSelect(OneCaller, id)

NextFailure ==
    \/ Tick
    \/ SalesCreateVehicle
    \/ FailureCreateTransactionSelect
    \/ createTransactionInsert(OneCaller)
    \/ createTransactionUpdate(OneCaller)
    \/ createTransactionUpdateFails(OneCaller)
    \/ FailureDeleteTransactionSelect
    \/ deleteTransactionUpdate(OneCaller)
    \/ deleteTransactionDelete(OneCaller)
    \/ deleteTransactionDeleteFails(OneCaller)

SpecFailure == Init /\ [][NextFailure]_vars

(***************************************************************************)
(* A deleteVehicle statement by statement, next to callers that record     *)
(* expenses and transactions.                                              *)
(***************************************************************************)
CascadeVendorRefInputs == {Undefined, Some(1)}

CascadeCreateExpenseSelect ==
    /\ nextExpenseId <= MaxReportExpenses
    /\ \E c \in Callers, vehicle_id \in VehicleIdInputs,
          vendor_id \in CascadeVendorRefInputs, amount \in ExpenseAmountInputs,
          expense_type \in ExpenseTypeInputs :
            createExpenseSelect(c, vehicle_id, vendor_id, amount, expense_type,
                                Undefined)
CascadeCreateTransactionSelect ==
    /\ nextTransactionId <= MaxTransactions
    /\ \E c \in Callers, vehicle_id \in VehicleIdInputs,
          type \in SaleTypeInputs, amount \in TransactionAmountInputs :
            createTransactionSelect(c, vehicle_id, type, amount, Undefined)
CascadeDeleteVehicleSelect ==
    \E id \in VehicleIdInputs : deleteVehicleSelect(OneCaller, id)

NextCascade ==
    \/ RaceCreateVehicle
    \/ CallCreateVendor
    \/ CascadeCreateExpenseSelect
    \/ \E c \in Callers : createExpenseVendor(c)
    \/ \E c \in Callers : createExpenseInsert(c)
    \/ CascadeCreateTransactionSelect
    \/ \E c \in Callers : createTransactionInsert(c)
    \/ \E c \in Callers : createTransactionUpdate(c)
    \/ CascadeDeleteVehicleSelect
    \/ deleteVehicleExpenses(OneCaller)
    \/ deleteVehicleTransactions(OneCaller)
    \/ deleteVehicleRow(OneCaller)

SpecCascade == Init /\ [][NextCascade]_vars

(***************************************************************************)
(* The dashboard query by query, next to a caller that writes.             *)
(***************************************************************************)
KpisUpdateInputs ==
    {[NoUpdate EXCEPT !.status = Some("listed")],
     [NoUpdate EXCEPT !.status = Some("reconditioning")],
     [NoUpdate EXCEPT !.status = Some("sold"), !.sale_price = Some(28005),
                      !.sale_date = Some(1)]}

KpisUpdateVehicle ==
    \E id \in VehicleIdInputs, input \in KpisUpdateInputs :
        updateVehicle(id, input.make, input.model, input.status,
                      input.listing_price, input.sale_price, input.sale_date)

NextKpis ==
    \/ RaceCreateVehicle
    \/ KpisUpdateVehicle
    \/ TxPathCreateExpense
    \/ getDashboardKpisInventory(OneCaller)
    \/ getDashboardKpisAcquisition(OneCaller)
    \/ getDashboardKpisExpenses(OneCaller)
    \/ getDashboardKpisReconditioning(OneCaller)
    \/ getDashboardKpisListed(OneCaller)
    \/ getDashboardKpisSoldCount(OneCaller)
    \/ getDashboardKpisSoldVehicles(OneCaller)
    \/ getDashboardKpisVehicleExpenses(OneCaller)
    \/ getDashboardKpisAvgDays(OneCaller)

SpecKpis == Init /\ [][NextKpis]_vars

(***************************************************************************)
(* Properties.                                                             *)
(***************************************************************************)

\* C1: a successful createTransaction of type "sale" on an existing vehicle,
\* whatever its status, persists the transaction and leaves that vehicle
\* with status "sold", sale_price the transaction's amount and sale_date the
\* transaction's date (the supplied date, or the time of the call when none
\* is supplied); no other vehicle changes.
C1_SaleMarksVehicleSold ==
    [][\A vehicle_id \in DOMAIN vehicles, amount \in SaleAmountInputs,
          transaction_date \in SaleDateInputs :
            createTransaction(vehicle_id, "sale", amount, transaction_date) =>
                LET t == result'.id
                IN  /\ result'.ok
                    /\ t \notin DOMAIN transactions
                    /\ t \in DOMAIN transactions'
                    /\ transactions'[t].vehicle_id = vehicle_id
                    /\ transactions'[t].type = "sale"
                    /\ transactions'[t].transaction_date =
                          (IF transaction_date = Undefined THEN now
                           ELSE Val(transaction_date))
                    /\ vehicles'[vehicle_id].status = "sold"
                    /\ vehicles'[vehicle_id].sale_price = Some(transactions'[t].amount)
                    /\ vehicles'[vehicle_id].sale_date =
                          Some(transactions'[t].transaction_date)
                    /\ DOMAIN vehicles' = DOMAIN vehicles
                    /\ \A o \in DOMAIN vehicles \ {vehicle_id} :
                          vehicles'[o] = vehicles[o]]_vars

\* A sale with a supplied date (0, earlier than any time of call) was
\* recorded while another vehicle is in the store.
C1_Witness ==
    /\ result.op = "createTransaction" /\ result.ok
    /\ result.id \in DOMAIN transactions
    /\ transactions[result.id].type = "sale"
    /\ transactions[result.id].transaction_date = 0
    /\ vehicles[transactions[result.id].vehicle_id].status = "sold"
    /\ vehicles[transactions[result.id].vehicle_id].sale_date = Some(0)
    /\ Cardinality(DOMAIN vehicles) = 2

\* C2: a successful deleteTransaction of a "sale" transaction removes the
\* transaction and leaves its vehicle "listed" with sale_price and sale_date
\* null, whatever the vehicle's status was.
C2_SaleDeletionRelistsVehicle ==
    [][\A id \in DOMAIN transactions :
          (transactions[id].type = "sale" /\ deleteTransaction(id)) =>
              /\ result'.ok
              /\ id \notin DOMAIN transactions'
              /\ vehicles'[transactions[id].vehicle_id].status = "listed"
              /\ vehicles'[transactions[id].vehicle_id].sale_price = Null
              /\ vehicles'[transactions[id].vehicle_id].sale_date = Null]_vars

\* A sale was deleted: no call of this specification sets "listed" but the
\* revert.
C2_Witness ==
    /\ result.op = "deleteTransaction" /\ result.ok
    /\ \E v \in DOMAIN vehicles :
          /\ vehicles[v].status = "listed"
          /\ vehicles[v].sale_price = Null
          /\ vehicles[v].sale_date = Null

\* C3: on the transaction-driven path (no updateVehicle) every vehicle has
\* status "sold" iff sale_price is non-null, and sale_price non-null iff
\* sale_date is non-null.
C3_SoldIffSaleRecorded ==
    \A v \in DOMAIN vehicles :
        /\ vehicles[v].status = "sold" <=> vehicles[v].sale_price # Null
        /\ vehicles[v].sale_price # Null <=> vehicles[v].sale_date # Null

\* One vehicle is sold and another was put back to "listed".
C3_Witness ==
    \E v, w \in DOMAIN vehicles :
        /\ vehicles[v].status = "sold" /\ vehicles[v].sale_price # Null
        /\ vehicles[w].status = "listed" /\ vehicles[w].sale_price = Null

EntersSold(v) ==
    /\ v \in DOMAIN vehicles /\ v \in DOMAIN vehicles'
    /\ vehicles[v].status # "sold" /\ vehicles'[v].status = "sold"
LeavesSold(v) ==
    /\ v \in DOMAIN vehicles /\ v \in DOMAIN vehicles'
    /\ vehicles[v].status = "sold" /\ vehicles'[v].status # "sold"
BySaleCreation(v) ==
    /\ result'.op = "createTransaction" /\ result'.ok
    /\ transactions'[result'.id].type = "sale"
    /\ transactions'[result'.id].vehicle_id = v
BySaleDeletion(v) ==
    /\ result'.op = "deleteTransaction" /\ result'.ok
    /\ result'.id \in DOMAIN transactions
    /\ transactions[result'.id].type = "sale"
    /\ transactions[result'.id].vehicle_id = v
ByVehicleUpdate(v) ==
    result'.op = "updateVehicle" /\ result'.ok /\ result'.id = v

\* C4 as stated: a vehicle becomes "sold" only in a createTransaction of
\* type "sale" on it and stops being "sold" only in a deleteTransaction of a
\* "sale" transaction on it.
C4_OnlySaleTransactionsDriveSold ==
    [][\A v \in VehicleIdInputs :
          /\ EntersSold(v) => BySaleCreation(v)
          /\ LeavesSold(v) => BySaleDeletion(v)]_vars

\* C4 as amended: a vehicle becomes "sold" only in a createTransaction of
\* type "sale" on it or an updateVehicle on it, and stops being "sold" only
\* in a deleteTransaction of a "sale" transaction on it or an updateVehicle
\* on it.
C4_SaleTransactionsAndUpdatesDriveSold ==
    [][\A v \in VehicleIdInputs :
          /\ EntersSold(v) => (BySaleCreation(v) \/ ByVehicleUpdate(v))
          /\ LeavesSold(v) => (BySaleDeletion(v) \/ ByVehicleUpdate(v))]_vars

\* updateVehicle made a vehicle "sold" that has no sale transaction.
C4_Witness ==
    /\ result.op = "updateVehicle" /\ result.ok
    /\ vehicles[result.id].status = "sold"
    /\ vehicles[result.id].sale_price = Null
    /\ \A t \in DOMAIN transactions : transactions[t].vehicle_id # result.id

\* C5: after a successful deleteVehicle(id) the store holds no vehicle with
\* that id and no expense or transaction of it, and every other vehicle,
\* the expenses and transactions of other vehicles and every vendor are
\* unchanged.
C5_DeleteVehicleCascades ==
    [][(result'.op = "deleteVehicle" /\ result'.ok) =>
          LET id == result'.id
          IN  /\ id \notin DOMAIN vehicles'
              /\ \A e \in DOMAIN expenses' : expenses'[e].vehicle_id # id
              /\ \A t \in DOMAIN transactions' : transactions'[t].vehicle_id # id
              /\ DOMAIN vehicles' = DOMAIN vehicles \ {id}
              /\ \A v \in DOMAIN vehicles' : vehicles'[v] = vehicles[v]
              /\ DOMAIN expenses' \subseteq DOMAIN expenses
              /\ \A e \in DOMAIN expenses :
                    expenses[e].vehicle_id # id =>
                        e \in DOMAIN expenses' /\ expenses'[e] = expenses[e]
              /\ DOMAIN transactions' \subseteq DOMAIN transactions
              /\ \A t \in DOMAIN transactions :
                    transactions[t].vehicle_id # id =>
                        t \in DOMAIN transactions' /\ transactions'[t] = transactions[t]
              /\ vendors' = vendors]_vars

\* A vehicle was deleted with the one expense ever created, while another
\* vehicle, its transaction and the vendor stay.
C5_Witness ==
    /\ result.op = "deleteVehicle" /\ result.ok
    /\ nextExpenseId = 2 /\ expenses = EmptyTable
    /\ \E t \in DOMAIN transactions : transactions[t].vehicle_id \in DOMAIN vehicles
    /\ vendors # EmptyTable

MissingVendor(vendor_id) ==
    /\ vendor_id # Undefined /\ vendor_id # Null
    /\ Val(vendor_id) \notin DOMAIN vendors

\* C7: createExpense and createTransaction with a vehicle_id of no vehicle,
\* and createExpense and updateExpense with a non-null vendor_id of no
\* vendor, fail and leave the store unchanged.
C7_MissingReferenceRejected ==
    [][/\ \A vehicle_id \in VehicleIdInputs, vendor_id \in VendorRefInputs,
             amount \in ExpenseAmountInputs, expense_type \in ExpenseTypeInputs,
             expense_date \in ExpenseDateInputs :
                (/\ createExpense(vehicle_id, vendor_id, amount, expense_type,
                                  expense_date)
                 /\ (vehicle_id \notin DOMAIN vehicles \/ MissingVendor(vendor_id)))
                    => (~result'.ok /\ UNCHANGED store)
       /\ \A vehicle_id \in VehicleIdInputs, type \in TransactionTypeInputs,
             amount \in TransactionAmountInputs,
             transaction_date \in TransactionDateInputs :
                (/\ createTransaction(vehicle_id, type, amount, transaction_date)
                 /\ vehicle_id \notin DOMAIN vehicles)
                    => (~result'.ok /\ UNCHANGED store)
       /\ \A id \in DOMAIN expenses, vendor_id \in VendorRefUpdates,
             amount \in ExpenseAmountUpdates :
                (/\ updateExpense(id, vendor_id, amount, Undefined, Undefined)
                 /\ MissingVendor(vendor_id))
                    => (~result'.ok /\ UNCHANGED store)]_vars

NotFoundThrown == ~result'.ok /\ result'.error = "NotFound" /\ UNCHANGED store

\* The six handlers that look the row up first.
MissingIdThrowsNotFound ==
    /\ \A id \in VehicleIdInputs, status \in StatusInputs :
          (/\ id \notin DOMAIN vehicles
           /\ updateVehicle(id, Undefined, Undefined, status, Undefined,
                            Undefined, Undefined)) => NotFoundThrown
    /\ \A id \in VehicleIdInputs :
          (id \notin DOMAIN vehicles /\ deleteVehicle(id)) => NotFoundThrown
    /\ \A id \in VendorIdInputs, name \in VendorRenameInputs :
          (id \notin DOMAIN vendors /\ updateVendor(id, name)) => NotFoundThrown
    /\ \A id \in VendorIdInputs :
          (id \notin DOMAIN vendors /\ deleteVendor(id)) => NotFoundThrown
    /\ \A id \in ExpenseIdInputs, vendor_id \in VendorRefUpdates,
          amount \in ExpenseAmountUpdates :
          (/\ id \notin DOMAIN expenses
           /\ updateExpense(id, vendor_id, amount, Undefined, Undefined))
              => NotFoundThrown
    /\ \A id \in TransactionIdInputs :
          (id \notin DOMAIN transactions /\ deleteTransaction(id)) => NotFoundThrown

\* C8 as stated: every mutating handler given the id of no row, deleteExpense
\* included, throws NotFound and leaves the store unchanged.
C8_MissingIdIsNotFound ==
    [][/\ MissingIdThrowsNotFound
       /\ \A id \in ExpenseIdInputs :
             (id \notin DOMAIN expenses /\ deleteExpense(id)) => NotFoundThrown]_vars

\* C8 as amended: updateVehicle, deleteVehicle, updateVendor, deleteVendor,
\* updateExpense and deleteTransaction throw NotFound and leave the store
\* unchanged; deleteExpense returns normally with success = false and leaves
\* the store unchanged.
C8_MissingIdIsNotFoundButDeleteExpense ==
    [][/\ MissingIdThrowsNotFound
       /\ \A id \in ExpenseIdInputs :
             (id \notin DOMAIN expenses /\ deleteExpense(id)) =>
                 (result'.ok /\ ~result'.success /\ UNCHANGED store)]_vars

\* deleteExpense was given the id of no expense and returned success = false.
C8_Witness ==
    /\ result.op = "deleteExpense" /\ result.ok /\ ~result.success
    /\ result.id \notin DOMAIN expenses

\* The profit/loss records the last call returned.
ReturnedProfitLoss ==
    IF result.op = "getProfitLossReport" THEN result.value
    ELSE IF result.op = "getVehicleProfitLoss" /\ result.value # Null
    THEN {Val(result.value)}
    ELSE {}

\* The amounts of the expenses 1 .. n that belong to a vehicle, added up.
RECURSIVE ExpenseTotalUpTo(_, _)
ExpenseTotalUpTo(vehicle_id, n) ==
    IF n = 0 THEN 0
    ELSE (IF n \in DOMAIN expenses /\ expenses[n].vehicle_id = vehicle_id
          THEN expenses[n].amount ELSE 0) + ExpenseTotalUpTo(vehicle_id, n - 1)

\* C9: in every record of getProfitLossReport and getVehicleProfitLoss,
\* total_expenses is the sum of the amounts of the vehicle's expenses (0
\* when it has none; transactions are not counted) and total_cost is
\* acquisition_cost + total_expenses.
C9_TotalExpensesIsSumOfExpenses ==
    \A r \in ReturnedProfitLoss :
        /\ r.total_expenses = ExpenseTotalUpTo(r.vehicle_id, nextExpenseId - 1)
        /\ r.total_cost = vehicles[r.vehicle_id].acquisition_cost + r.total_expenses

\* A record of a vehicle with two expenses and a transaction of type
\* "expense", while the other vehicle has none.
C9_Witness ==
    \E r \in ReturnedProfitLoss :
        /\ Cardinality(ExpensesOfVehicle(r.vehicle_id)) = 2
        /\ r.total_expenses > 0
        /\ \E t \in DOMAIN transactions :
              /\ transactions[t].vehicle_id = r.vehicle_id
              /\ transactions[t].type = "expense"
        /\ Cardinality(DOMAIN vehicles) = 2

\* C10: the record of a vehicle whose sale_price is null, whatever its
\* status, has sale_price = null, profit_loss = null and is_sold = false.
C10_NoSalePriceMeansNotSold ==
    \A r \in ReturnedProfitLoss :
        vehicles[r.vehicle_id].sale_price = Null =>
            /\ r.sale_price = Null
            /\ r.profit_loss = Null
            /\ r.is_sold = FALSE

\* A record of a vehicle that updateVehicle set to "sold" with no sale price.
C10_Witness ==
    \E r \in ReturnedProfitLoss :
        /\ vehicles[r.vehicle_id].status = "sold"
        /\ vehicles[r.vehicle_id].sale_price = Null
        /\ ~r.is_sold

\* C11: the record of a vehicle whose sale_price is non-null, whatever the
\* value and whatever the vehicle's status, has is_sold = true and
\* profit_loss = sale_price - total_cost, a number and never null.
C11_SalePriceMeansProfitLoss ==
    \A r \in ReturnedProfitLoss :
        vehicles[r.vehicle_id].sale_price # Null =>
            /\ r.is_sold
            /\ r.profit_loss # Null
            /\ r.profit_loss =
                  Some(Val(vehicles[r.vehicle_id].sale_price) - r.total_cost)

\* The record of a vehicle in the unfiltered profit/loss report.
UnfilteredRecordsOf(id) == {r \in ProfitLossReport(NoFilters) : r.vehicle_id = id}

TwoDigits(n) == IF n < 10 THEN "0" \o ToString(n) ELSE ToString(n)
Decimal(cents) ==
    IF cents < 0
    THEN "-" \o ToString((-cents) \div 100) \o "." \o TwoDigits((-cents) % 100)
    ELSE ToString(cents \div 100) \o "." \o TwoDigits(cents % 100)
OptionalDecimal(o) == IF o = Null THEN "" ELSE Decimal(Val(o))

\* The line expected for a record of the profit/loss report.
ExpectedProfitLossLine(r) ==
    ToString(r.vehicle_id) \o ",\"" \o vehicles[r.vehicle_id].vin \o "\",\"" \o
    vehicles[r.vehicle_id].make \o "\",\"" \o vehicles[r.vehicle_id].model \o
    "\"," \o Decimal(r.acquisition_cost) \o "," \o Decimal(r.total_expenses) \o
    "," \o OptionalDecimal(r.sale_price) \o "," \o OptionalDecimal(r.profit_loss) \o
    "\n"

RECURSIVE ExpectedProfitLossLines(_)
ExpectedProfitLossLines(records) ==
    IF records = <<>> THEN ""
    ELSE ExpectedProfitLossLine(Head(records)) \o
         ExpectedProfitLossLines(Tail(records))

\* C17: exportProfitLossToCSV(filters) returns the fixed header line
\* followed by exactly one row per record of getProfitLossReport(filters),
\* with the record's amounts and empty fields where sale price or
\* profit/loss is null; when no vehicle matches it returns the header line
\* alone.
C17_ProfitLossCsvIsHeaderAndOneRowPerRecord ==
    [][\A filters \in ReportFilterInputs :
          exportProfitLossToCSV(filters) =>
              /\ result'.ok
              /\ \E records \in Orderings(ProfitLossReport(filters)) :
                    result'.value =
                        "Vehicle ID,VIN,Make,Model,Acquisition Cost,Total Expenses,Sale Price,Profit/Loss\n"
                        \o ExpectedProfitLossLines(records)
              /\ ProfitLossReport(filters) = {} =>
                    result'.value =
                        "Vehicle ID,VIN,Make,Model,Acquisition Cost,Total Expenses,Sale Price,Profit/Loss\n"]_vars

\* An export of two vehicles, one with a sale price and one without.
C17_Witness ==
    /\ result.op = "exportProfitLossToCSV"
    /\ Len(result.value) > Len(ProfitLossCsvHeader) + 60
    /\ \E v, w \in DOMAIN vehicles :
          /\ vehicles[v].sale_price = Null
          /\ vehicles[w].sale_price # Null
          /\ vehicles[w].status # "sold"

\* A vehicle satisfies every supplied predicate, an empty make or model
\* being a predicate like any other.
SatisfiesSupplied(v, filters) ==
    /\ filters.start_date = Undefined
          \/ vehicles[v].acquisition_date >= Val(filters.start_date)
    /\ filters.end_date = Undefined
          \/ vehicles[v].acquisition_date <= Val(filters.end_date)
    /\ filters.status = Undefined \/ vehicles[v].status = Val(filters.status)
    /\ filters.make = Undefined \/ vehicles[v].make = Val(filters.make)
    /\ filters.model = Undefined \/ vehicles[v].model = Val(filters.model)

\* A make or model filter that is the empty text counts as not supplied.
NonEmptyFilters(filters) ==
    [filters EXCEPT !.make = IF @ = Some("") THEN Undefined ELSE @,
                    !.model = IF @ = Some("") THEN Undefined ELSE @]

\* C12 as stated: getProfitLossReport(filters) returns exactly one record for
\* each vehicle that satisfies all supplied predicates together and none for
\* any other vehicle; with no filters, one record for every vehicle.
C12_ReportIsTheVehiclesMatchingEveryFilter ==
    [][result'.op = "getProfitLossReport" =>
          \A filters \in FilterInputs :
              getProfitLossReport(filters) =>
                  LET matching == {v \in DOMAIN vehicles :
                                      SatisfiesSupplied(v, filters)}
                  IN  /\ {r.vehicle_id : r \in result'.value} = matching
                      /\ Cardinality(result'.value) = Cardinality(matching)]_vars

\* C12 as amended: the same, where a make or model filter that is the empty
\* text imposes no constraint.
C12_ReportIsTheVehiclesMatchingEveryNonEmptyFilter ==
    [][result'.op = "getProfitLossReport" =>
          \A filters \in FilterInputs :
              getProfitLossReport(filters) =>
                  LET matching == {v \in DOMAIN vehicles :
                                      SatisfiesSupplied(v, NonEmptyFilters(filters))}
                  IN  /\ {r.vehicle_id : r \in result'.value} = matching
                      /\ Cardinality(result'.value) = Cardinality(matching)]_vars

\* A report of one vehicle out of two: the other meets the make filter
\* or the status filter but not both.
C12_Witness ==
    /\ result.op = "getProfitLossReport"
    /\ Cardinality(result.value) = 1
    /\ \E v, w \in DOMAIN vehicles :
          /\ v \in {r.vehicle_id : r \in result.value}
          /\ w \notin {r.vehicle_id : r \in result.value}
          /\ vehicles[v].make = "Toyota" /\ vehicles[v].status = "listed"
          /\ vehicles[w].make = "Toyota" /\ vehicles[w].status = "acquired"
          /\ vehicles[v].acquisition_date = vehicles[w].acquisition_date

\* An expense lies within the supplied date bounds and its vehicle has the
\* supplied status, make and model.
ExpenseSatisfiesSupplied(e, filters) ==
    /\ filters.start_date = Undefined
          \/ expenses[e].expense_date >= Val(filters.start_date)
    /\ filters.end_date = Undefined
          \/ expenses[e].expense_date <= Val(filters.end_date)
    /\ filters.status = Undefined
          \/ vehicles[expenses[e].vehicle_id].status = Val(filters.status)
    /\ filters.make = Undefined
          \/ vehicles[expenses[e].vehicle_id].make = Val(filters.make)
    /\ filters.model = Undefined
          \/ vehicles[expenses[e].vehicle_id].model = Val(filters.model)

\* The amounts of the expenses 1 .. n of a set, added up.
RECURSIVE AmountTotalUpTo(_, _)
AmountTotalUpTo(ids, n) ==
    IF n = 0 THEN 0
    ELSE (IF n \in ids THEN expenses[n].amount ELSE 0) + AmountTotalUpTo(ids, n - 1)

\* The records are one per expense_type of the set, with its sum and count.
IsBreakdownOf(records, matching) ==
    /\ {r.expense_type : r \in records} = {expenses[e].expense_type : e \in matching}
    /\ Cardinality(records) =
          Cardinality({expenses[e].expense_type : e \in matching})
    /\ \A r \in records :
          LET ofType == {e \in matching : expenses[e].expense_type = r.expense_type}
          IN  /\ r.total_amount = AmountTotalUpTo(ofType, nextExpenseId - 1)
              /\ r.count = Cardinality(ofType)

\* C15 as stated: getExpenseBreakdown(filters) returns one record per
\* expense_type with at least one matching expense and none for the other
\* types, an expense matching when its expense_date is within the supplied
\* bounds and its vehicle has the supplied status, make and model; each
\* record holds the sum and the number of the matching expenses.
C15_BreakdownIsPerTypeOfMatchingExpenses ==
    [][result'.op = "getExpenseBreakdown" =>
          \A filters \in BreakdownFilterInputs :
              getExpenseBreakdown(filters) =>
                  IsBreakdownOf(result'.value,
                                {e \in DOMAIN expenses :
                                    ExpenseSatisfiesSupplied(e, filters)})]_vars

\* C15 as amended: the same, where a make or model filter that is the empty
\* text imposes no constraint.
C15_BreakdownIsPerTypeOfExpensesMatchingNonEmptyFilters ==
    [][result'.op = "getExpenseBreakdown" =>
          \A filters \in BreakdownFilterInputs :
              getExpenseBreakdown(filters) =>
                  IsBreakdownOf(result'.value,
                                {e \in DOMAIN expenses :
                                    ExpenseSatisfiesSupplied(
                                        e, NonEmptyFilters(filters))})]_vars

\* A breakdown that counts one of two expenses of the same type, dated on
\* different days.
C15_Witness ==
    /\ result.op = "getExpenseBreakdown"
    /\ Cardinality(DOMAIN expenses) = 2
    /\ \E r \in result.value :
          /\ r.count = 1
          /\ \A e \in DOMAIN expenses : expenses[e].expense_type = r.expense_type
    /\ \E e, f \in DOMAIN expenses :
          /\ expenses[e].expense_date # expenses[f].expense_date
          /\ expenses[e].vehicle_id = expenses[f].vehicle_id

\* The line expected for a record of the expense breakdown.
ExpectedBreakdownLine(r) ==
    "\"" \o r.expense_type \o "\"," \o Decimal(r.total_amount) \o "," \o
    ToString(r.count) \o "\n"

RECURSIVE ExpectedBreakdownLines(_)
ExpectedBreakdownLines(records) ==
    IF records = <<>> THEN ""
    ELSE ExpectedBreakdownLine(Head(records)) \o
         ExpectedBreakdownLines(Tail(records))

\* C16: for every store and every filter set, the data rows of
\* exportExpenseBreakdownToCSV are, one to one, the records of
\* getExpenseBreakdown called with the same filters, with the same
\* expense_type, total amount and count.
C16_BreakdownCsvIsTheBreakdown ==
    [][result'.op = "exportExpenseBreakdownToCSV" =>
          \A filters \in BreakdownFilterInputs :
              exportExpenseBreakdownToCSV(filters) =>
                  \E records \in Orderings(ExpenseBreakdown(filters)) :
                      result'.value =
                          "Expense Type,Total Amount,Count\n"
                          \o ExpectedBreakdownLines(records)]_vars

\* The acquisition costs of the vehicles 1 .. n of a set, added up.
RECURSIVE CostTotalUpTo(_, _)
CostTotalUpTo(ids, n) ==
    IF n = 0 THEN 0
    ELSE (IF n \in ids THEN vehicles[n].acquisition_cost ELSE 0)
         + CostTotalUpTo(ids, n - 1)

\* C18: getDashboardKpis returns total_inventory = the number of vehicles
\* that are neither "sold" nor "archived", and total_inventory_value = the
\* sum of their acquisition costs plus the sum of the amounts of the
\* expenses of those vehicles; expenses of sold or archived vehicles
\* contribute nothing.
C18_InventoryIsUnsoldUnarchived ==
    [][getDashboardKpis =>
          LET inventory == {v \in DOMAIN vehicles :
                               vehicles[v].status \notin {"sold", "archived"}}
              attached == {e \in DOMAIN expenses : expenses[e].vehicle_id \in inventory}
          IN  /\ result'.value.total_inventory = Cardinality(inventory)
              /\ result'.value.total_inventory_value =
                    CostTotalUpTo(inventory, nextVehicleId - 1)
                    + AmountTotalUpTo(attached, nextExpenseId - 1)]_vars

\* One vehicle with an expense is in the inventory and an archived one with
\* an expense is not.
C18_Witness ==
    /\ result.op = "getDashboardKpis"
    /\ result.value.total_inventory = 1
    /\ \E e, f \in DOMAIN expenses :
          /\ vehicles[expenses[e].vehicle_id].status = "archived"
          /\ vehicles[expenses[f].vehicle_id].status = "reconditioning"
          /\ result.value.total_inventory_value =
                vehicles[expenses[f].vehicle_id].acquisition_cost + expenses[f].amount

\* The first day of the month a day lies in.
FirstOfMonth(day) ==
    CHOOSE d \in 0 .. day : d % MonthLength = 0 /\ day < d + MonthLength

\* The sold vehicles whose sale_date is on or after the first of the month.
SoldFromFirstOfMonth ==
    {v \in DOMAIN vehicles :
        /\ vehicles[v].status = "sold"
        /\ vehicles[v].sale_date # Null
        /\ Val(vehicles[v].sale_date) >= FirstOfMonth(now)}

\* C19 as stated: vehicles_sold_this_month is the number of "sold" vehicles
\* whose sale_date lies between the first day of the current month and now,
\* both included.
C19_SoldThisMonthIsUpToNow ==
    [][getDashboardKpis =>
          result'.value.vehicles_sold_this_month =
              Cardinality({v \in SoldFromFirstOfMonth :
                              Val(vehicles[v].sale_date) <= now})]_vars

\* C19 as amended: vehicles_sold_this_month is the number of "sold" vehicles
\* whose sale_date is on or after the first day of the current month; a
\* sale_date after now is counted.
C19_SoldThisMonthIsFromFirstOfMonth ==
    [][getDashboardKpis =>
          result'.value.vehicles_sold_this_month =
              Cardinality(SoldFromFirstOfMonth)]_vars

\* Of two sold vehicles, the one sold after now is counted and the one sold
\* before the first of the month is not.
C19_Witness ==
    /\ result.op = "getDashboardKpis"
    /\ result.value.vehicles_sold_this_month = 1
    /\ \E v, w \in DOMAIN vehicles :
          /\ vehicles[v].status = "sold" /\ vehicles[w].status = "sold"
          /\ vehicles[v].sale_date # Null /\ vehicles[w].sale_date # Null
          /\ Val(vehicles[v].sale_date) > now
          /\ Val(vehicles[w].sale_date) < FirstOfMonth(now)

\* The profit of the vehicles 1 .. n of a set, added up.
RECURSIVE ProfitTotalUpTo(_, _)
ProfitTotalUpTo(ids, n) ==
    IF n = 0 THEN 0
    ELSE (IF n \in ids
          THEN Val(vehicles[n].sale_price) - vehicles[n].acquisition_cost
               - ExpenseTotalUpTo(n, nextExpenseId - 1)
          ELSE 0) + ProfitTotalUpTo(ids, n - 1)

\* C20: total_profit_this_month is the sum, over the vehicles counted in
\* vehicles_sold_this_month that have a non-null sale_price, of sale_price
\* - acquisition_cost - the sum of the vehicle's expense amounts; 0 when
\* there is none.
C20_ProfitThisMonthIsOverCountedVehicles ==
    [][getDashboardKpis =>
          LET priced == {v \in SoldFromFirstOfMonth : vehicles[v].sale_price # Null}
          IN  /\ result'.value.total_profit_this_month =
                    ProfitTotalUpTo(priced, nextVehicleId - 1)
              /\ priced = {} => result'.value.total_profit_this_month = 0]_vars

\* Two vehicles are counted: one with a sale price and an expense, one with
\* no sale price.
C20_Witness ==
    /\ result.op = "getDashboardKpis"
    /\ result.value.vehicles_sold_this_month = 2
    /\ \E v, w \in DOMAIN vehicles :
          /\ vehicles[v].sale_price # Null /\ ExpensesOfVehicle(v) # {}
          /\ vehicles[w].sale_price = Null
          /\ result.value.total_profit_this_month =
                Val(vehicles[v].sale_price) - vehicles[v].acquisition_cost
                - ExpenseTotalUpTo(v, nextExpenseId - 1)

\* The days from acquisition to sale of the vehicles 1 .. n of a set, added
\* up.
RECURSIVE DaysTotalUpTo(_, _)
DaysTotalUpTo(ids, n) ==
    IF n = 0 THEN 0
    ELSE (IF n \in ids
          THEN Val(vehicles[n].sale_date) - vehicles[n].acquisition_date
          ELSE 0) + DaysTotalUpTo(ids, n - 1)

SoldVehicles == {v \in DOMAIN vehicles : vehicles[v].status = "sold"}
SoldVehiclesWithDate == {v \in SoldVehicles : vehicles[v].sale_date # Null}

\* C21 as stated: avg_days_to_sale is the average of sale_date -
\* acquisition_date in days over all vehicles with status "sold", a number
\* whenever a sold vehicle exists, and null when none exists.
C21_AverageIsOverAllSoldVehicles ==
    [][getDashboardKpis =>
          IF SoldVehicles = {}
          THEN result'.value.avg_days_to_sale = Null
          ELSE /\ result'.value.avg_days_to_sale # Null
               /\ Val(result'.value.avg_days_to_sale).vehicles =
                     Cardinality(SoldVehicles)]_vars

\* C21 as amended: avg_days_to_sale is the average of sale_date -
\* acquisition_date in days over all vehicles with status "sold" that have
\* a sale_date, sold this month or not, and null when there is none.
C21_AverageIsOverSoldVehiclesWithDate ==
    [][getDashboardKpis =>
          IF SoldVehiclesWithDate = {}
          THEN result'.value.avg_days_to_sale = Null
          ELSE result'.value.avg_days_to_sale =
                  Some([days |-> DaysTotalUpTo(SoldVehiclesWithDate,
                                               nextVehicleId - 1),
                        vehicles |-> Cardinality(SoldVehiclesWithDate)])]_vars

\* An average over two sold vehicles of which one was sold before the
\* current month, with different days to sale.
C21_Witness ==
    /\ result.op = "getDashboardKpis"
    /\ result.value.avg_days_to_sale # Null
    /\ Val(result.value.avg_days_to_sale).vehicles = 2
    /\ result.value.vehicles_sold_this_month = 1
    /\ \E v, w \in SoldVehiclesWithDate :
          Val(vehicles[v].sale_date) - vehicles[v].acquisition_date
              # Val(vehicles[w].sale_date) - vehicles[w].acquisition_date

\* The sale transactions in the store for a vehicle.
SalesOfVehicle(v) ==
    {t \in DOMAIN transactions :
        transactions[t].vehicle_id = v /\ transactions[t].type = "sale"}

\* C26: without updateVehicle, every vehicle with status "sold" has a sale
\* transaction in the store whose amount is its sale_price and whose
\* transaction_date is its sale_date.
C26_SoldVehicleHasItsSale ==
    \A v \in DOMAIN vehicles :
        vehicles[v].status = "sold" =>
            \E t \in SalesOfVehicle(v) :
                /\ vehicles[v].sale_price = Some(transactions[t].amount)
                /\ vehicles[v].sale_date = Some(transactions[t].transaction_date)

\* A sold vehicle with two sale transactions of different amounts and dates.
C26_Witness ==
    \E v \in DOMAIN vehicles :
        /\ vehicles[v].status = "sold"
        /\ \E t, u \in SalesOfVehicle(v) :
              /\ transactions[t].amount # transactions[u].amount
              /\ transactions[t].transaction_date # transactions[u].transaction_date

\* C27: without updateVehicle, every vehicle for which a sale transaction
\* exists in the store has status "sold" and a sale_price, also after some
\* of several sale transactions of the vehicle were deleted.
C27_VehicleWithSaleIsSold ==
    \A v \in DOMAIN vehicles :
        SalesOfVehicle(v) # {} =>
            vehicles[v].status = "sold" /\ vehicles[v].sale_price # Null

\* C29: in every state reached by create, update and delete calls, every
\* expense and every transaction names a vehicle that exists, and every
\* expense with a vendor_id names a vendor that exists.
C29_ReferencesResolve ==
    /\ \A e \in DOMAIN expenses :
          /\ expenses[e].vehicle_id \in DOMAIN vehicles
          /\ expenses[e].vendor_id # Null =>
                Val(expenses[e].vendor_id) \in DOMAIN vendors
    /\ \A t \in DOMAIN transactions :
          transactions[t].vehicle_id \in DOMAIN vehicles

\* A vendor named by an expense was not deleted, after a vehicle, a vendor,
\* an expense and a transaction were created.
C29_Witness ==
    /\ result = Thrown("deleteVendor", "Conflict")
    /\ \E e \in DOMAIN expenses : expenses[e].vendor_id # Null
    /\ transactions # EmptyTable

\* The transactions of type "expense" or "refund" a step inserts or a
\* deleteTransaction removes.
OtherThanSale(table, ids) ==
    {t \in ids : table[t].type \in {"expense", "refund"}}
CreatedOtherThanSale ==
    IF result'.op = "createTransaction"
    THEN OtherThanSale(transactions', DOMAIN transactions' \ DOMAIN transactions)
    ELSE {}
DeletedOtherThanSale ==
    IF result'.op = "deleteTransaction"
    THEN OtherThanSale(transactions, DOMAIN transactions \ DOMAIN transactions')
    ELSE {}

\* C28: creating or deleting a transaction of type "expense" or "refund"
\* changes no vehicle, expense or vendor, so a refund does not revert a
\* sale, and the profit/loss report, the inventory aging, the expense
\* breakdown and the dashboard are the same before and after.
C28_OtherTransactionsTouchOnlyTransactions ==
    [][CreatedOtherThanSale \cup DeletedOtherThanSale # {} =>
          /\ vehicles' = vehicles
          /\ expenses' = expenses
          /\ vendors' = vendors
          /\ ProfitLossReport(NoFilters)' = ProfitLossReport(NoFilters)
          /\ InventoryAging' = InventoryAging
          /\ ExpenseBreakdown(NoFilters)' = ExpenseBreakdown(NoFilters)
          /\ DashboardKpis' = DashboardKpis]_vars

\* A refund was recorded for a sold vehicle with an expense, after its sale.
C28_Witness ==
    /\ result.op = "createTransaction"
    /\ result.id \in DOMAIN transactions
    /\ transactions[result.id].type = "refund"
    /\ LET v == transactions[result.id].vehicle_id
       IN  /\ vehicles[v].status = "sold"
           /\ SalesOfVehicle(v) # {}
           /\ \E e \in DOMAIN expenses : expenses[e].vehicle_id = v

\* What a vehicle field holds after a successful updateVehicle: the
\* supplied value (a price in the two decimals of its column), or the
\* previous value when the input leaves the field out.
SuppliedOr(supplied, previous) ==
    IF supplied = Undefined THEN previous ELSE Val(supplied)
SuppliedPriceOr(supplied, previous) ==
    IF supplied = Undefined THEN previous
    ELSE IF supplied = Null THEN Null
    ELSE Some(ToNumeric(Val(supplied)))
SuppliedDateOr(supplied, previous) ==
    IF supplied = Undefined THEN previous ELSE supplied

\* C22: a successful updateVehicle sets the fields its input supplies and
\* keeps every other field of the vehicle, never changes id, vin,
\* acquisition_date or acquisition_cost, and leaves all other vehicles and
\* all vendors, expenses and transactions unchanged.
C22_UpdateVehicleChangesTheSuppliedFields ==
    [][\A id \in VehicleIdInputs, input \in UpdateInputs :
          (/\ result'.op = "updateVehicle"
           /\ updateVehicle(id, input.make, input.model, input.status,
                            input.listing_price, input.sale_price,
                            input.sale_date)
           /\ result' = Returned("updateVehicle", id, TRUE)) =>
              /\ DOMAIN vehicles' = DOMAIN vehicles
              /\ \A v \in DOMAIN vehicles \ {id} : vehicles'[v] = vehicles[v]
              /\ vehicles'[id].vin = vehicles[id].vin
              /\ vehicles'[id].acquisition_date = vehicles[id].acquisition_date
              /\ vehicles'[id].acquisition_cost = vehicles[id].acquisition_cost
              /\ vehicles'[id].make = SuppliedOr(input.make, vehicles[id].make)
              /\ vehicles'[id].model = SuppliedOr(input.model, vehicles[id].model)
              /\ vehicles'[id].status = SuppliedOr(input.status, vehicles[id].status)
              /\ vehicles'[id].listing_price =
                    SuppliedPriceOr(input.listing_price, vehicles[id].listing_price)
              /\ vehicles'[id].sale_price =
                    SuppliedPriceOr(input.sale_price, vehicles[id].sale_price)
              /\ vehicles'[id].sale_date =
                    SuppliedDateOr(input.sale_date, vehicles[id].sale_date)
              /\ UNCHANGED <<vendors, expenses, transactions>>]_vars

\* An update of the make alone of a priced, sold vehicle, next to another
\* vehicle, an expense and a transaction.
C22_Witness ==
    /\ result.op = "updateVehicle"
    /\ result.id \in DOMAIN vehicles
    /\ vehicles[result.id].make = "Honda"
    /\ vehicles[result.id].model = "Civic"
    /\ vehicles[result.id].status = "sold"
    /\ vehicles[result.id].listing_price = Some(2000)
    /\ vehicles[result.id].sale_price # Null
    /\ Cardinality(DOMAIN vehicles) = 2
    /\ expenses # EmptyTable
    /\ transactions # EmptyTable

\* No call is in flight.
Quiescent == \A c \in Callers : calls[c] = Idle

\* C23: no lock protects the vehicle row: each statement of a sale
\* createTransaction or deleteTransaction in flight can run whatever the
\* other caller is doing, so the statements of the two calls interleave.
C23_NoStatementWaits ==
    \A c \in Callers :
        /\ At(c, "createTransaction", "insert") => ENABLED createTransactionInsert(c)
        /\ At(c, "createTransaction", "update") => ENABLED createTransactionUpdate(c)
        /\ At(c, "deleteTransaction", "update") => ENABLED deleteTransactionUpdate(c)
        /\ At(c, "deleteTransaction", "delete") => ENABLED deleteTransactionDelete(c)

\* Both calls are over and the vehicle is "sold" with a sale_price while no
\* sale transaction of it is in the store.
C23_Witness ==
    /\ Quiescent
    /\ \E v \in DOMAIN vehicles :
          /\ vehicles[v].status = "sold"
          /\ vehicles[v].sale_price # Null
          /\ SalesOfVehicle(v) = {}

\* C25: when the vehicle update of a sale createTransaction fails after its
\* insert, the call throws, the sale transaction stays in the store and the
\* vehicle is as the call found it; when the delete of a sale
\* deleteTransaction fails after its vehicle update, the call throws and
\* the vehicle is left "listed", without sale_price and sale_date, with the
\* sale transaction still in the store.
C25_SecondWriteFailsWithoutRollback ==
    [][/\ createTransactionUpdateFails(OneCaller) =>
             LET call == calls[OneCaller]
                 id == Val(call.local.transaction).id
             IN  /\ ~result'.ok
                 /\ id \in DOMAIN transactions'
                 /\ transactions'[id].type = "sale"
                 /\ transactions'[id].vehicle_id = call.input.vehicle_id
                 /\ vehicles'[call.input.vehicle_id] = call.local.vehicle
       /\ deleteTransactionDeleteFails(OneCaller) =>
             LET call == calls[OneCaller]
                 id == call.input.id
             IN  /\ ~result'.ok
                 /\ id \in DOMAIN transactions'
                 /\ transactions'[id] = Val(call.local)
                 /\ transactions'[id].type = "sale" =>
                       LET v == vehicles'[transactions'[id].vehicle_id]
                       IN  /\ v.status = "listed"
                           /\ v.sale_price = Null
                           /\ v.sale_date = Null]_vars

\* A createTransaction has thrown after its insert: its sale is in the
\* store and the vehicle is not "sold".
C25_Witness ==
    /\ result = Thrown("createTransaction", "StoreError")
    /\ \E t \in DOMAIN transactions :
          /\ t = nextTransactionId - 1
          /\ transactions[t].type = "sale"
          /\ vehicles[transactions[t].vehicle_id].status # "sold"

\* C30: a deleteVehicle whose three deletes interleave with a createExpense
\* or createTransaction for the same vehicle either removes the vehicle and
\* all of its expenses and transactions, or fails with the vehicle and
\* every expense and transaction it had before the call still in the store.
C30_DeleteVehicleIsAllOrNothing ==
    [][\A c \in Callers :
          deleteVehicleRow(c) =>
              LET id == calls[c].input.id
                  had == calls[c].had
              IN  IF result'.ok
                  THEN /\ id \notin DOMAIN vehicles'
                       /\ \A e \in DOMAIN expenses' : expenses'[e].vehicle_id # id
                       /\ \A t \in DOMAIN transactions' :
                             transactions'[t].vehicle_id # id
                  ELSE /\ id \in DOMAIN vehicles'
                       /\ had.expenses \subseteq DOMAIN expenses'
                       /\ had.transactions \subseteq DOMAIN transactions']_vars

\* C24: getDashboardKpis issues its queries one after another.  When no
\* write changes the vehicles or expenses between them, it returns the
\* record of one store state, in which vehicles_in_reconditioning +
\* vehicles_listed <= total_inventory; a write between two queries can
\* make the record combine values of different store states.
C24_UntornDashboardIsASnapshot ==
    [][(getDashboardKpisAvgDays(OneCaller) /\ ~Torn(calls[OneCaller])) =>
          /\ result'.value = DashboardKpis
          /\ result'.value.vehicles_in_reconditioning
                + result'.value.vehicles_listed
                    <= result'.value.total_inventory]_vars

\* A returned record that counts more vehicles listed or in reconditioning
\* than vehicles in the inventory.
C24_Witness ==
    /\ result.op = "getDashboardKpis"
    /\ result.value.vehicles_in_reconditioning + result.value.vehicles_listed
          > result.value.total_inventory
====
